---- MODULE Spec2Model ----
(***************************************************************************)
(* Streaming execution core of polars-stream: the driver loop of           *)
(* execute_graph (crates/polars-stream/src/execute.rs) over a logical      *)
(* graph of operator nodes and pipes, and the multiplexer insertion of     *)
(* the physical plan (crates/polars-stream/src/physical_plan/mod.rs).      *)
(***************************************************************************)
EXTENDS Integers, Sequences, FiniteSets, TLC

(* ------------------------------------------------------------------ *)
(* Bounds                                                              *)
(* ------------------------------------------------------------------ *)
MaxMorsels == 2

MaxPhases == 5

MaxTaskErrors == 2

MaxBackgroundTasks == 1

(* ------------------------------------------------------------------ *)
(* Generic helpers                                                     *)
(* ------------------------------------------------------------------ *)
Range(s) == {s[i] : i \in 1..Len(s)}

Last(s) == s[Len(s)]

Front(s) == SubSeq(s, 1, Len(s) - 1)

Perms(S) == {s \in [1..Cardinality(S) -> S] : \A i, j \in 1..Cardinality(S) : i # j => s[i] # s[j]}

RECURSIVE AppendNew(_, _)
AppendNew(s, t) ==
    IF t = <<>> THEN s
    ELSE CHOOSE res \in {AppendNew(x, Tail(t)) :
                            x \in {IF t[1] \in Range(s) THEN s ELSE Append(s, t[1])}} : TRUE

RECURSIVE Flatten(_)
Flatten(ss) == IF ss = <<>> THEN <<>> ELSE ss[1] \o Flatten(Tail(ss))

SetMax(S) == CHOOSE x \in S : \A y \in S : y <= x

(* ------------------------------------------------------------------ *)
(* The logical graph: GraphNode, LogicalPipe, PortState                *)
(* ------------------------------------------------------------------ *)
PortState == {"Blocked", "Ready", "Done"}

GraphNode(kind, inputs, outputs) == [kind |-> kind, inputs |-> inputs, outputs |-> outputs]

LogicalPipe(sender, send_port, receiver, recv_port) ==
    [sender |-> sender, send_port |-> send_port, send_state |-> "Blocked",
     receiver |-> receiver, recv_port |-> recv_port, recv_state |-> "Blocked"]

\* The graphs the driver is run on: node i of a graph is the i-th slot of Graph.nodes.
Graphs == <<
    \* 1: Source -> Sink
    [nodes |-> <<GraphNode("Source", <<>>, <<1>>), GraphNode("Sink", <<1>>, <<>>)>>,
     pipes |-> <<LogicalPipe(1, 0, 2, 0)>>],
    \* 2: Source -> Map -> Sink
    [nodes |-> <<GraphNode("Source", <<>>, <<1>>), GraphNode("Map", <<1>>, <<2>>),
                 GraphNode("Sink", <<2>>, <<>>)>>,
     pipes |-> <<LogicalPipe(1, 0, 2, 0), LogicalPipe(2, 0, 3, 0)>>],
    \* 3: Source -> Sort -> Sink
    [nodes |-> <<GraphNode("Source", <<>>, <<1>>), GraphNode("Sort", <<1>>, <<2>>),
                 GraphNode("Sink", <<2>>, <<>>)>>,
     pipes |-> <<LogicalPipe(1, 0, 2, 0), LogicalPipe(2, 0, 3, 0)>>],
    \* 4: Source -> Sort -> Sort -> Sink
    [nodes |-> <<GraphNode("Source", <<>>, <<1>>), GraphNode("Sort", <<1>>, <<2>>),
                 GraphNode("Sort", <<2>>, <<3>>), GraphNode("Sink", <<3>>, <<>>)>>,
     pipes |-> <<LogicalPipe(1, 0, 2, 0), LogicalPipe(2, 0, 3, 0), LogicalPipe(3, 0, 4, 0)>>],
    \* 5: two independent chains Source -> Sort -> Sink
    [nodes |-> <<GraphNode("Source", <<>>, <<1>>), GraphNode("Sort", <<1>>, <<2>>),
                 GraphNode("Sink", <<2>>, <<>>),
                 GraphNode("Source", <<>>, <<3>>), GraphNode("Sort", <<3>>, <<4>>),
                 GraphNode("Sink", <<4>>, <<>>)>>,
     pipes |-> <<LogicalPipe(1, 0, 2, 0), LogicalPipe(2, 0, 3, 0),
                 LogicalPipe(4, 0, 5, 0), LogicalPipe(5, 0, 6, 0)>>],
    \* 6: (Source, Source) -> OrderedUnion -> Sink
    [nodes |-> <<GraphNode("Source", <<>>, <<1>>), GraphNode("Source", <<>>, <<2>>),
                 GraphNode("Union", <<1, 2>>, <<3>>), GraphNode("Sink", <<3>>, <<>>)>>,
     pipes |-> <<LogicalPipe(1, 0, 3, 0), LogicalPipe(2, 0, 3, 1), LogicalPipe(3, 0, 4, 0)>>],
    \* 7: Source -> an operator that never unblocks its input
    [nodes |-> <<GraphNode("Source", <<>>, <<1>>), GraphNode("Stall", <<1>>, <<>>)>>,
     pipes |-> <<LogicalPipe(1, 0, 2, 0)>>],
    \* 8: Source -> Sort -> Sink next to an independent Source -> Sink
    [nodes |-> <<GraphNode("Source", <<>>, <<1>>), GraphNode("Sort", <<1>>, <<2>>),
                 GraphNode("Sink", <<2>>, <<>>),
                 GraphNode("Source", <<>>, <<3>>), GraphNode("Sink", <<3>>, <<>>)>>,
     pipes |-> <<LogicalPipe(1, 0, 2, 0), LogicalPipe(2, 0, 3, 0), LogicalPipe(4, 0, 5, 0)>>],
    \* 9: Source -> an operator whose spawn leaves the receive port in its slot
    [nodes |-> <<GraphNode("Source", <<>>, <<1>>), GraphNode("Leaky", <<1>>, <<>>)>>,
     pipes |-> <<LogicalPipe(1, 0, 2, 0)>>]
>>

(* ------------------------------------------------------------------ *)
(* Operator SPI: is_memory_intensive_pipeline_blocker, update_state    *)
(* ------------------------------------------------------------------ *)
is_memory_intensive_pipeline_blocker(kind) == kind = "Sort"

InitCompute(kind, morsels) ==
    [remaining |-> IF kind = "Source" THEN morsels ELSE 0,
     phase |-> IF kind = "Sort" THEN "sink" ELSE "none",
     emitted |-> FALSE,
     cur |-> 1,
     rows |-> IF kind = "Source" THEN [k \in 1..morsels |-> k] ELSE <<>>,
     pass |-> {},
     buffers |-> <<>>]

\* recv[i]: the send_state of the i-th input pipe; send[o]: the recv_state of the o-th
\* output pipe. The result holds the node's new state and the states it writes back.
update_state_Source(st, recv, send) ==
    [st |-> st, recv |-> <<>>,
     send |-> <<IF st.remaining = 0 \/ send[1] = "Done" THEN "Done" ELSE "Ready">>]

update_state_Map(st, recv, send) == [st |-> st, recv |-> send, send |-> recv]

\* Mutant: the input is reported Done in the emitting phase only.
update_state_Sort_reopens_input(st, recv, send) ==
    LET phase == IF send[1] = "Done" THEN "done"
                 ELSE IF st.phase = "sink" /\ recv[1] = "Done" THEN "source"
                 ELSE IF st.phase = "source" /\ st.emitted THEN "done"
                 ELSE st.phase
    IN [st |-> [st EXCEPT !.phase = phase],
        recv |-> <<IF phase = "source" THEN "Done" ELSE "Ready">>,
        send |-> <<IF phase = "sink" THEN "Blocked" ELSE IF phase = "source" THEN "Ready" ELSE "Done">>]

update_state_Sort(st, recv, send) ==
    LET phase == IF send[1] = "Done" THEN "done"
                 ELSE IF st.phase = "sink" /\ recv[1] = "Done" THEN "source"
                 ELSE IF st.phase = "source" /\ st.emitted THEN "done"
                 ELSE st.phase
    IN [st |-> [st EXCEPT !.phase = phase],
        recv |-> <<IF phase = "sink" THEN "Ready" ELSE "Done">>,
        send |-> <<IF phase = "sink" THEN "Blocked" ELSE IF phase = "source" THEN "Ready" ELSE "Done">>]

update_state_Sink(st, recv, send) ==
    [st |-> st, recv |-> <<IF recv[1] = "Done" THEN "Done" ELSE "Ready">>, send |-> <<>>]

update_state_Union(st, recv, send) ==
    LET n == Len(recv)
        open == {i \in st.cur..n : recv[i] # "Done"}
        cur == IF open = {} THEN n + 1 ELSE CHOOSE i \in open : \A j \in open : i <= j
    IN IF cur > n \/ send[1] = "Done"
       THEN [st |-> [st EXCEPT !.cur = cur], recv |-> [i \in 1..n |-> "Done"], send |-> <<"Done">>]
       ELSE [st |-> [st EXCEPT !.cur = cur],
             recv |-> [i \in 1..n |-> IF i < cur THEN "Done" ELSE IF i = cur THEN send[1] ELSE "Blocked"],
             send |-> <<recv[cur]>>]

update_state_Stall(st, recv, send) ==
    [st |-> st, recv |-> <<IF recv[1] = "Done" THEN "Done" ELSE "Blocked">>, send |-> <<>>]

update_state_Leaky(st, recv, send) ==
    [st |-> st, recv |-> <<IF recv[1] = "Done" THEN "Done" ELSE "Ready">>, send |-> <<>>]

update_state_Filter(st, recv, send) == [st |-> st, recv |-> send, send |-> recv]

\* The multiplexer keeps one buffer per output; the buffer of an output whose receiver is
\* Done is closed. It is done when its input is Done and the buffers are empty, or when
\* every output is Done; an output with buffered morsels is Ready.
update_state_Multiplexer(st, recv, send) ==
    LET buffers == [o \in 1..Len(send) |->
                       IF send[o] = "Done" \/ o \notin DOMAIN st.buffers THEN <<>> ELSE st.buffers[o]]
        input_done == recv[1] = "Done" /\ \A o \in 1..Len(send) : buffers[o] = <<>>
        output_done == \A o \in 1..Len(send) : send[o] = "Done"
    IN IF input_done \/ output_done
       THEN [st |-> [st EXCEPT !.buffers = buffers],
             recv |-> <<"Done">>, send |-> [o \in 1..Len(send) |-> "Done"]]
       ELSE [st |-> [st EXCEPT !.buffers = buffers],
             recv |-> <<IF recv[1] = "Done" THEN "Done"
                        ELSE IF \A o \in 1..Len(send) : send[o] = "Blocked" THEN "Blocked"
                        ELSE "Ready">>,
             send |-> [o \in 1..Len(send) |->
                          IF send[o] = "Done" THEN "Done"
                          ELSE IF buffers[o] # <<>> THEN "Ready"
                          ELSE recv[1]]]

update_state(kind, st, recv, send) ==
    CASE kind = "Source" -> update_state_Source(st, recv, send)
      [] kind = "Map" -> update_state_Map(st, recv, send)
      [] kind = "Sort" -> update_state_Sort(st, recv, send)
      [] kind = "Sink" -> update_state_Sink(st, recv, send)
      [] kind = "Union" -> update_state_Union(st, recv, send)
      [] kind = "Stall" -> update_state_Stall(st, recv, send)
      [] kind = "Leaky" -> update_state_Leaky(st, recv, send)
      [] kind = "Filter" -> update_state_Filter(st, recv, send)
      [] kind = "Multiplexer" -> update_state_Multiplexer(st, recv, send)

(* ------------------------------------------------------------------ *)
(* Graph::update_all_states: a worklist run of update_state to a fixpoint *)
(* ------------------------------------------------------------------ *)
RECURSIVE update_loop(_, _, _, _)
update_loop(ns, ps, cs, to_update) ==
    IF to_update = <<>> THEN [pipes |-> ps, compute |-> cs]
    ELSE LET node_key == Last(to_update)
             node == ns[node_key]
             nin == Len(node.inputs)
             nout == Len(node.outputs)
             recv_state == [i \in 1..nin |-> ps[node.inputs[i]].send_state]
             send_state == [o \in 1..nout |-> ps[node.outputs[o]].recv_state]
             r == update_state(node.kind, cs[node_key], recv_state, send_state)
             in_changed == SelectSeq([i \in 1..nin |-> i],
                                     LAMBDA i : ps[node.inputs[i]].recv_state # r.recv[i])
             out_changed == SelectSeq([o \in 1..nout |-> o],
                                      LAMBDA o : ps[node.outputs[o]].send_state # r.send[o])
             ps2 == [p \in DOMAIN ps |->
                       IF \E i \in 1..nin : node.inputs[i] = p
                       THEN [ps[p] EXCEPT !.recv_state =
                                r.recv[CHOOSE i \in 1..nin : node.inputs[i] = p]]
                       ELSE IF \E o \in 1..nout : node.outputs[o] = p
                       THEN [ps[p] EXCEPT !.send_state =
                                r.send[CHOOSE o \in 1..nout : node.outputs[o] = p]]
                       ELSE ps[p]]
             woken == [k \in 1..Len(in_changed) |-> ps[node.inputs[in_changed[k]]].sender]
                      \o [k \in 1..Len(out_changed) |-> ps[node.outputs[out_changed[k]]].receiver]
         \* the set constructor binds the new state as a value before the next turn
         IN CHOOSE res \in {update_loop(ns, x.ps, x.cs, x.to_update) :
                               x \in {[ps |-> ps2, cs |-> [cs EXCEPT ![node_key] = r.st],
                                        to_update |-> AppendNew(Front(to_update), woken)]}} : TRUE

update_all_states(ns, ps, cs) == update_loop(ns, ps, cs, [i \in 1..Len(ns) |-> i])

(* ------------------------------------------------------------------ *)
(* execute.rs: subgraph selection                                      *)
(* ------------------------------------------------------------------ *)
\* Mutant: the outputs of a node are not looked at.
find_runnable_pipeline_blockers_any_outputs(ns, ps) ==
    SelectSeq([i \in 1..Len(ns) |-> i],
              LAMBDA n :
                  \E i \in 1..Len(ns[n].inputs) :
                      /\ ps[ns[n].inputs[i]].send_state = "Ready"
                      /\ ps[ns[n].inputs[i]].recv_state = "Ready")

find_runnable_pipeline_blockers(ns, ps) ==
    SelectSeq([i \in 1..Len(ns) |-> i],
              LAMBDA n :
                  /\ \A o \in 1..Len(ns[n].outputs) : ps[ns[n].outputs[o]].send_state = "Blocked"
                  /\ \E i \in 1..Len(ns[n].inputs) :
                         /\ ps[ns[n].inputs[i]].send_state = "Ready"
                         /\ ps[ns[n].inputs[i]].recv_state = "Ready")

\* The inner for loop of expand_ready_subgraph over node.inputs, from input i on.
RECURSIVE expand_inputs(_, _, _, _)
expand_inputs(ps, inputs, i, acc) ==
    IF i > Len(inputs) THEN acc
    ELSE LET input_pipe == ps[inputs[i]]
             next == IF input_pipe.send_state = "Ready" /\ input_pipe.recv_state = "Ready"
                     THEN [nodes |-> IF input_pipe.sender \in acc.in_subgraph
                                     THEN acc.nodes ELSE Append(acc.nodes, input_pipe.sender),
                           in_subgraph |-> acc.in_subgraph \cup {input_pipe.sender},
                           pipes |-> Append(acc.pipes, inputs[i])]
                     ELSE acc
         IN CHOOSE res \in {expand_inputs(ps, inputs, i + 1, x) : x \in {next}} : TRUE

RECURSIVE expand_loop(_, _, _)
expand_loop(ns, ps, acc) ==
    IF acc.nodes = <<>> THEN [nodes |-> acc.in_subgraph, pipes |-> acc.pipes]
    ELSE CHOOSE res \in {expand_loop(ns, ps, x) :
                            x \in {expand_inputs(ps, ns[Last(acc.nodes)].inputs, 1,
                                                 [acc EXCEPT !.nodes = Front(acc.nodes)])}} : TRUE

\* Mutant: the set is not expanded with the nodes feeding it.
expand_ready_subgraph_not_expanded(ns, ps, start) == [nodes |-> Range(start), pipes |-> <<>>]

\* Mutant: the sender of an input pipe is added whenever the receive side is Ready.
RECURSIVE grow_over_ready_receivers(_, _, _)
grow_over_ready_receivers(ns, ps, S) ==
    LET more == S \cup {ps[p].sender : p \in {q \in DOMAIN ps : ps[q].receiver \in S
                                                               /\ ps[q].recv_state = "Ready"}}
    IN IF more = S THEN S
       ELSE CHOOSE res \in {grow_over_ready_receivers(ns, ps, x) : x \in {more}} : TRUE

expand_ready_subgraph_any_send_state(ns, ps, start) ==
    LET S == grow_over_ready_receivers(ns, ps, Range(start))
    IN [nodes |-> S,
        pipes |-> SelectSeq([p \in 1..Len(ps) |-> p],
                            LAMBDA p : ps[p].receiver \in S /\ ps[p].recv_state = "Ready")]

\* Mutant: only the direct inputs of the given nodes are added.
expand_ready_subgraph_one_level(ns, ps, start) ==
    LET first(n) == expand_inputs(ps, ns[n].inputs, 1,
                                  [nodes |-> <<>>, in_subgraph |-> {n}, pipes |-> <<>>])
    IN [nodes |-> Range(start) \cup UNION {first(start[k]).in_subgraph : k \in 1..Len(start)},
        pipes |-> Flatten([k \in 1..Len(start) |-> first(start[k]).pipes])]

expand_ready_subgraph(ns, ps, start) ==
    expand_loop(ns, ps, [nodes |-> start, in_subgraph |-> Range(start), pipes |-> <<>>])

outputs_ready_to_receive(ns, ps, n) ==
    Cardinality({o \in 1..Len(ns[n].outputs) : ps[ns[n].outputs[o]].recv_state = "Ready"})

\* Vec::sort_by_key: a stable sort, ascending in the key.
RECURSIVE sort_by_key(_, _, _)
sort_by_key(ns, ps, v) ==
    IF Len(v) <= 1 THEN v
    ELSE LET k == outputs_ready_to_receive(ns, ps, v[1])
         IN CHOOSE res \in
                {SelectSeq(rest, LAMBDA x : outputs_ready_to_receive(ns, ps, x) < k)
                 \o <<v[1]>>
                 \o SelectSeq(rest, LAMBDA x : outputs_ready_to_receive(ns, ps, x) >= k) :
                     rest \in {sort_by_key(ns, ps, Tail(v))}} : TRUE

\* Mutant: every memory intensive blocker is run, not only the last of the sorted ones.
select_blockers_all_expensive(ns, ps) ==
    LET blockers == find_runnable_pipeline_blockers(ns, ps)
        expensive == sort_by_key(ns, ps,
                         SelectSeq(blockers, LAMBDA b : is_memory_intensive_pipeline_blocker(ns[b].kind)))
        cheap == SelectSeq(blockers, LAMBDA b : ~is_memory_intensive_pipeline_blocker(ns[b].kind))
    IN cheap \o expensive

\* Mutant: the cheap blockers are dropped from the set to run.
select_blockers_expensive_only(ns, ps) ==
    LET blockers == find_runnable_pipeline_blockers(ns, ps)
        expensive == sort_by_key(ns, ps,
                         SelectSeq(blockers, LAMBDA b : is_memory_intensive_pipeline_blocker(ns[b].kind)))
    IN IF expensive # <<>> THEN <<Last(expensive)>> ELSE <<>>

\* Mutant: with a memory intensive blocker to run, the cheap ones wait for a later phase.
select_blockers_defers_cheap(ns, ps) ==
    LET blockers == find_runnable_pipeline_blockers(ns, ps)
        expensive == sort_by_key(ns, ps,
                         SelectSeq(blockers, LAMBDA b : is_memory_intensive_pipeline_blocker(ns[b].kind)))
        cheap == SelectSeq(blockers, LAMBDA b : ~is_memory_intensive_pipeline_blocker(ns[b].kind))
    IN IF expensive # <<>> THEN <<Last(expensive)>> ELSE cheap

\* Mutant: no memory intensive blocker is run.
select_blockers_cheap_only(ns, ps) ==
    LET blockers == find_runnable_pipeline_blockers(ns, ps)
    IN SelectSeq(blockers, LAMBDA b : ~is_memory_intensive_pipeline_blocker(ns[b].kind))

\* Mutant: the memory intensive blocker with the fewest outputs ready to receive is run.
select_blockers_least_ready(ns, ps) ==
    LET blockers == find_runnable_pipeline_blockers(ns, ps)
        expensive == sort_by_key(ns, ps,
                         SelectSeq(blockers, LAMBDA b : is_memory_intensive_pipeline_blocker(ns[b].kind)))
        cheap == SelectSeq(blockers, LAMBDA b : ~is_memory_intensive_pipeline_blocker(ns[b].kind))
    IN IF expensive # <<>> THEN Append(cheap, expensive[1]) ELSE cheap

select_blockers(ns, ps) ==
    LET blockers == find_runnable_pipeline_blockers(ns, ps)
        expensive == sort_by_key(ns, ps,
                         SelectSeq(blockers, LAMBDA b : is_memory_intensive_pipeline_blocker(ns[b].kind)))
        cheap == SelectSeq(blockers, LAMBDA b : ~is_memory_intensive_pipeline_blocker(ns[b].kind))
    IN IF expensive # <<>> THEN Append(cheap, Last(expensive)) ELSE cheap

find_runnable_subgraph(ns, ps) == expand_ready_subgraph(ns, ps, select_blockers(ns, ps))

(* ------------------------------------------------------------------ *)
(* State of one execute_graph call                                     *)
(* ------------------------------------------------------------------ *)
VARIABLES
    nodes,          \* graph.nodes: node key -> GraphNode
    pipes,          \* graph.pipes: pipe key -> LogicalPipe
    compute,        \* the compute object of every node
    pc,             \* position of the driver in execute_graph / run_subgraph
    phases,         \* number of run_subgraph calls so far
    sub_nodes,      \* the subgraph returned by find_runnable_subgraph: its nodes
    sub_pipes,      \* ... and its pipes
    physical_pipes, \* run_subgraph: pipe key -> the physical pipe of this phase
    num_send_ports_not_yet_ready,
    ready,          \* run_subgraph: the stack of nodes ready to be spawned
    node_refs,      \* run_subgraph: nodes whose &mut reference was not taken yet
    recv_ports,     \* run_subgraph: the receive-port slots as the last spawn() left them
    send_ports,     \* run_subgraph: the send-port slots as the last spawn() left them
    spawned,        \* the nodes spawned in this phase, in spawn order
    join_handles,   \* the tasks of this phase, in the order their handles were pushed
    awaited,        \* number of join handles the await loop has gone through
    phase_ret,      \* the value of block_on in run_subgraph
    ret,            \* the value execute_graph returned
    subphase_tasks, \* the handles sent through subphase_tasks_send, in the order sent
    query_tasks,    \* the handles sent through query_tasks_send, in the order sent
    out,            \* the map execute_graph builds from get_output()
    pipe_seq_offsets, \* execute_graph: pipe key -> the sequence-offset cell of the pipe
    phys_sm,        \* build_physical_plan: the arena of PhysNode
    plan_root,      \* ... the key of the root node
    plan_lowered,   \* ... the arena as lower_ir left it
    plan_pc,        \* ... position in build_physical_plan
    bitmap,         \* the Bitmap the calls act on
    bitmap_call,    \* the last Bitmap call: its name, arguments and return value
    overflow_checks, \* whether the build panics on usize overflow (debug) or wraps (release)
    to_run,         \* find_runnable_subgraph: the blockers handed to expand_ready_subgraph
    chunked_array,  \* the ChunkedArray first_non_null and last_non_null are called on
    non_null_call,  \* the last of these calls: its name and the Option it returned
    traverser,      \* the NodeTraverser: the length of its expression arena and its mapping
    traverser_call  \* the last NodeTraverser call: its name, argument and outcome

vars == <<nodes, pipes, compute, pc, phases, sub_nodes, sub_pipes, physical_pipes,
          num_send_ports_not_yet_ready, ready, node_refs, recv_ports, send_ports, spawned, join_handles,
          awaited, phase_ret, ret, subphase_tasks, query_tasks, out, pipe_seq_offsets,
          phys_sm, plan_root, plan_lowered, plan_pc, bitmap, bitmap_call, overflow_checks, to_run,
          chunked_array, non_null_call, traverser, traverser_call>>

\* The state of the functions that are checked on their own, outside execute_graph.
lib_vars == <<chunked_array, non_null_call, traverser, traverser_call>>

unit_vars == <<bitmap, bitmap_call, overflow_checks, to_run, lib_vars>>

bg_vars == <<subphase_tasks, query_tasks>>

plan_vars == <<phys_sm, plan_root, plan_lowered, plan_pc>>

graph_vars == <<nodes, pipes, compute>>

run_vars == <<sub_nodes, sub_pipes, physical_pipes, num_send_ports_not_yet_ready, ready,
              node_refs, recv_ports, send_ports, spawned, join_handles, awaited, phase_ret>>

None == [tag |-> "None", err |-> 0]

Ok == [tag |-> "Ok", err |-> 0]

Err(e) == [tag |-> "Err", err |-> e]

Panic == [tag |-> "Panic", err |-> 0]

NoBitmap == [tag |-> "None"]

NoCall == [op |-> "none", args |-> <<>>, ret |-> 0, parts |-> <<>>, panicked |-> FALSE, calls |-> 0]

NoChunkedArray == [tag |-> "None"]

NoTraverser == [tag |-> "None"]

NoLibCall == [op |-> "none"]

\* No ChunkedArray and no NodeTraverser exists.
lib_idle ==
    /\ chunked_array = NoChunkedArray
    /\ non_null_call = NoLibCall
    /\ traverser = NoTraverser
    /\ traverser_call = NoLibCall

\* No Bitmap exists and no selection function is called on its own.
unit_idle ==
    /\ bitmap = NoBitmap /\ bitmap_call = NoCall /\ overflow_checks = TRUE /\ to_run = <<>>
    /\ lib_idle

Sources(g) == {n \in 1..Len(g.nodes) : g.nodes[n].kind = "Source"}

Init ==
    \E g \in Range(Graphs) : \E morsels \in [Sources(g) -> 0..MaxMorsels] :
        /\ nodes = g.nodes
        /\ pipes = g.pipes
        /\ compute = [n \in 1..Len(g.nodes) |->
                        InitCompute(g.nodes[n].kind, IF n \in Sources(g) THEN morsels[n] ELSE 0)]
        /\ pc = "start"
        /\ phases = 0
        /\ sub_nodes = {}
        /\ sub_pipes = <<>>
        /\ physical_pipes = <<>>
        /\ num_send_ports_not_yet_ready = <<>>
        /\ ready = <<>>
        /\ node_refs = {}
        /\ recv_ports = <<>>
        /\ send_ports = <<>>
        /\ spawned = <<>>
        /\ join_handles = <<>>
        /\ awaited = 0
        /\ phase_ret = None
        /\ ret = None
        /\ unit_idle
        /\ subphase_tasks = <<>>
        /\ query_tasks = <<>>
        /\ out = <<>>
        /\ pipe_seq_offsets = <<>>
        /\ phys_sm = <<>>
        /\ plan_root = 0
        /\ plan_lowered = <<>>
        /\ plan_pc = "none"

(* ------------------------------------------------------------------ *)
(* execute_graph: the driver loop                                      *)
(* ------------------------------------------------------------------ *)
\* Mutant: only the inputs of the nodes are checked.
properly_connected_inputs_only ==
    \A n \in DOMAIN nodes :
        \A i \in 1..Len(nodes[n].inputs) :
            /\ pipes[nodes[n].inputs[i]].receiver = n
            /\ pipes[nodes[n].inputs[i]].recv_port = i - 1

\* The asserts of the loop over graph.nodes at the start of execute_graph.
properly_connected ==
    \A n \in DOMAIN nodes :
        /\ \A i \in 1..Len(nodes[n].inputs) :
               /\ pipes[nodes[n].inputs[i]].receiver = n
               /\ pipes[nodes[n].inputs[i]].recv_port = i - 1
        /\ \A o \in 1..Len(nodes[n].outputs) :
               /\ pipes[nodes[n].outputs[o]].sender = n
               /\ pipes[nodes[n].outputs[o]].send_port = o - 1

EnsureConnected ==
    /\ pc = "start"
    /\ IF properly_connected
       THEN pc' = "update" /\ ret' = ret
       ELSE pc' = "panicked" /\ ret' = Panic
    /\ UNCHANGED <<unit_vars, plan_vars, bg_vars, out, pipe_seq_offsets, graph_vars, phases, run_vars>>

UpdateAllStates ==
    /\ pc = "update"
    /\ pipes' = update_all_states(nodes, pipes, compute).pipes
    /\ compute' = update_all_states(nodes, pipes, compute).compute
    /\ pc' = "await_update_tasks"
    /\ UNCHANGED <<unit_vars, plan_vars, bg_vars, out, pipe_seq_offsets, nodes, phases, run_vars, ret>>

\* The error of an update_state call as the driver returns it.
UpdateErr == [tag |-> "Err", err |-> 0 - 1]

\* Mutant: the error of update_all_states is kept but the loop goes on.
UpdateAllStatesFails_ignored ==
    /\ pc = "update"
    /\ pc' = "await_update_tasks"
    /\ ret' = UpdateErr
    /\ \/ pipes' = pipes /\ compute' = compute
       \/ /\ pipes' = update_all_states(nodes, pipes, compute).pipes
          /\ compute' = update_all_states(nodes, pipes, compute).compute
    /\ UNCHANGED <<unit_vars, plan_vars, bg_vars, out, pipe_seq_offsets, nodes, phases, run_vars>>

\* graph.update_all_states(&state)? with an update_state that returns an error, at the
\* first node or at the last one.
UpdateAllStatesFails ==
    /\ pc = "update"
    /\ pc' = "returned"
    /\ ret' = UpdateErr
    /\ \/ pipes' = pipes /\ compute' = compute
       \/ /\ pipes' = update_all_states(nodes, pipes, compute).pipes
          /\ compute' = update_all_states(nodes, pipes, compute).compute
    /\ UNCHANGED <<unit_vars, plan_vars, bg_vars, out, pipe_seq_offsets, nodes, phases, run_vars>>

\* A JoinHandle as tokio::task::spawn returns it, sent through one of the two channels
\* of StreamingExecutionState; `at` and `iter` record when it was sent.
BackgroundTask(at, iter) == [status |-> "running", awaited |-> FALSE, at |-> at, iter |-> iter]

\* The error of a background task as the driver returns it.
BackgroundErr == [tag |-> "Err", err |-> 0]

\* Code of an operator is running: update_state inside update_all_states, or spawn()
\* and the tasks of the nodes inside run_subgraph.
operator_code_running ==
    \/ pc = "update"
    \/ /\ pc \in {"spawn", "await"}
       /\ \E i \in 1..Len(join_handles) :
              join_handles[i].owner = "node" /\ join_handles[i].status = "running"

spawn_subphase_task ==
    /\ operator_code_running
    /\ Len(subphase_tasks) < MaxBackgroundTasks
    /\ subphase_tasks' = Append(subphase_tasks,
                                 BackgroundTask(IF pc = "update" THEN "update" ELSE "phase", phases))
    /\ UNCHANGED <<unit_vars, plan_vars, query_tasks, out, pipe_seq_offsets, graph_vars, pc, phases, run_vars, ret>>

spawn_query_task ==
    /\ operator_code_running
    /\ Len(query_tasks) < MaxBackgroundTasks
    /\ query_tasks' = Append(query_tasks,
                              BackgroundTask(IF pc = "update" THEN "update" ELSE "phase", phases))
    /\ UNCHANGED <<unit_vars, plan_vars, subphase_tasks, out, pipe_seq_offsets, graph_vars, pc, phases, run_vars, ret>>

\* A background task runs on the tokio runtime and ends on its own, with Ok or Err.
SubphaseTaskEnds(i, status) ==
    /\ pc \notin {"returned", "panicked"}
    /\ subphase_tasks[i].status = "running"
    /\ subphase_tasks' = [subphase_tasks EXCEPT ![i].status = status]
    /\ UNCHANGED <<unit_vars, plan_vars, query_tasks, out, pipe_seq_offsets, graph_vars, pc, phases, run_vars, ret>>

QueryTaskEnds(i, status) ==
    /\ pc \notin {"returned", "panicked"}
    /\ query_tasks[i].status = "running"
    /\ query_tasks' = [query_tasks EXCEPT ![i].status = status]
    /\ UNCHANGED <<unit_vars, plan_vars, subphase_tasks, out, pipe_seq_offsets, graph_vars, pc, phases, run_vars, ret>>

\* try_recv() on a channel: the first handle not yet received, 0 when there is none.
try_recv(tasks) ==
    IF \A i \in 1..Len(tasks) : tasks[i].awaited THEN 0
    ELSE CHOOSE i \in 1..Len(tasks) : ~tasks[i].awaited /\ \A j \in 1..(i - 1) : tasks[j].awaited

\* Mutant: the channel is not drained after update_all_states.
AwaitUpdateSubphaseTasks_not_drained ==
    /\ pc = "await_update_tasks"
    /\ pc' = "find"
    /\ UNCHANGED <<unit_vars, plan_vars, bg_vars, out, pipe_seq_offsets, graph_vars, phases, run_vars, ret>>

\* while let Ok(handle) = subphase_tasks_recv.try_recv() { handle.await.unwrap()?; }
AwaitUpdateSubphaseTasks ==
    /\ pc = "await_update_tasks"
    /\ LET h == try_recv(subphase_tasks)
       IN IF h = 0
          THEN pc' = "find" /\ ret' = ret /\ subphase_tasks' = subphase_tasks
          ELSE /\ subphase_tasks[h].status # "running"
               /\ subphase_tasks' = [subphase_tasks EXCEPT ![h].awaited = TRUE]
               /\ IF subphase_tasks[h].status = "err"
                  THEN pc' = "returned" /\ ret' = BackgroundErr
                  ELSE pc' = pc /\ ret' = ret
    /\ UNCHANGED <<unit_vars, plan_vars, query_tasks, out, pipe_seq_offsets, graph_vars, phases, run_vars>>

FindRunnableSubgraph ==
    /\ pc = "find"
    /\ LET g == find_runnable_subgraph(nodes, pipes)
       IN /\ sub_nodes' = g.nodes
          /\ sub_pipes' = g.pipes
          /\ IF g.nodes = {}
             THEN pc' = "ensure_done" /\ phases' = phases
             ELSE phases < MaxPhases /\ pc' = "run" /\ phases' = phases + 1
    /\ UNCHANGED <<unit_vars, plan_vars, bg_vars, out, pipe_seq_offsets, graph_vars, physical_pipes, num_send_ports_not_yet_ready, ready, node_refs, recv_ports, send_ports,
                   spawned, join_handles, awaited, phase_ret, ret>>

\* Mutant: the check is compiled out.
everything_is_done_unchecked(ps) == TRUE

\* The condition of the assert! over graph.pipes.values().
everything_is_done(ps) ==
    \A p \in DOMAIN ps : ps[p].send_state = "Done" /\ ps[p].recv_state = "Done"

EnsureDone ==
    /\ pc = "ensure_done"
    /\ IF everything_is_done(pipes)
       THEN pc' = "finalize_query_tasks" /\ ret' = ret
       ELSE pc' = "panicked" /\ ret' = Panic
    /\ UNCHANGED <<unit_vars, plan_vars, bg_vars, out, pipe_seq_offsets, graph_vars, phases, run_vars>>

\* Mutant: the query tasks are left in the channel.
FinalizeQueryTasks_not_drained ==
    /\ pc = "finalize_query_tasks"
    /\ pc' = "extract_output"
    /\ UNCHANGED <<unit_vars, plan_vars, bg_vars, out, pipe_seq_offsets, graph_vars, phases, run_vars, ret>>

\* while let Ok(handle) = query_tasks_recv.try_recv() { handle.await.unwrap()?; }
FinalizeQueryTasks ==
    /\ pc = "finalize_query_tasks"
    /\ LET h == try_recv(query_tasks)
       IN IF h = 0
          THEN pc' = "extract_output" /\ ret' = ret /\ query_tasks' = query_tasks
          ELSE /\ query_tasks[h].status # "running"
               /\ query_tasks' = [query_tasks EXCEPT ![h].awaited = TRUE]
               /\ IF query_tasks[h].status = "err"
                  THEN pc' = "returned" /\ ret' = BackgroundErr
                  ELSE pc' = pc /\ ret' = ret
    /\ UNCHANGED <<unit_vars, plan_vars, subphase_tasks, out, pipe_seq_offsets, graph_vars, phases, run_vars>>

\* get_output() of an operator: the in-memory sink hands out what it collected.
get_output(kind, st) ==
    IF kind = "Sink" THEN [tag |-> "Some", df |-> st.rows] ELSE [tag |-> "None", df |-> <<>>]

\* Mutant: an entry is inserted for every node, with or without an output.
extract_output_every_node(ns, cs) == [n \in DOMAIN ns |-> get_output(ns[n].kind, cs[n]).df]

\* The loop over graph.nodes that fills `out`.
extract_output(ns, cs) ==
    [n \in {m \in DOMAIN ns : get_output(ns[m].kind, cs[m]).tag = "Some"} |->
        get_output(ns[n].kind, cs[n]).df]

ExtractOutput ==
    /\ pc = "extract_output"
    /\ out' = extract_output(nodes, compute)
    /\ pc' = "returned"
    /\ ret' = Ok
    /\ UNCHANGED <<unit_vars, plan_vars, bg_vars, pipe_seq_offsets, graph_vars, phases, run_vars>>

(* ------------------------------------------------------------------ *)
(* run_subgraph                                                        *)
(* ------------------------------------------------------------------ *)
\* PhysicalPipe::new(num_pipelines, seq_offset): `seq_offset` names the shared cell,
\* `data` are the stamped morsels in its lanes.
PhysicalPipe(seq_offset) ==
    [recv_port |-> FALSE, send_port |-> FALSE, spawned |-> FALSE, seq_offset |-> seq_offset, data |-> {}]

\* Mutant: every pipe of the phase gets a new cell.
seq_offset_entries_fresh(offsets, keys) ==
    [p \in DOMAIN offsets \cup Range(keys) |-> IF p \in Range(keys) THEN 0 ELSE offsets[p]]

\* pipe_seq_offsets.entry(pipe_key).unwrap().or_default() for every pipe of the phase.
seq_offset_entries(offsets, keys) ==
    [p \in DOMAIN offsets \cup Range(keys) |-> IF p \in DOMAIN offsets THEN offsets[p] ELSE 0]

num_outputs_in_subgraph(n, phys) ==
    Cardinality({o \in 1..Len(nodes[n].outputs) : nodes[n].outputs[o] \in DOMAIN phys})

\* Mutant: every node of the subgraph starts on the ready stack.
ready_at_start_all(S, counts) == S

\* The nodes pushed on `ready` before the spawn loop: no output in the subgraph.
ready_at_start(S, counts) == {n \in S : counts[n] = 0}

\* Mutant: a physical pipe is made for every pipe of the graph.
ConstructPhysicalPipes_every_pipe ==
    /\ pc = "run"
    /\ LET phys == [p \in DOMAIN pipes |-> PhysicalPipe(p)]
           counts == [n \in sub_nodes |-> num_outputs_in_subgraph(n, phys)]
       IN /\ physical_pipes' = phys
          /\ num_send_ports_not_yet_ready' = counts
          \* `for node_key in nodes` walks a hash set: any order
          /\ ready' \in Perms(ready_at_start(sub_nodes, counts))
    /\ pipe_seq_offsets' = seq_offset_entries(pipe_seq_offsets, sub_pipes)
    /\ node_refs' = DOMAIN nodes
    /\ recv_ports' = <<>>
    /\ send_ports' = <<>>
    /\ spawned' = <<>>
    /\ join_handles' = <<>>
    /\ awaited' = 0
    /\ phase_ret' = None
    /\ pc' = "spawn"
    /\ UNCHANGED <<unit_vars, plan_vars, bg_vars, out, graph_vars, phases, sub_nodes, sub_pipes, ret>>

ConstructPhysicalPipes ==
    /\ pc = "run"
    /\ LET phys == [p \in Range(sub_pipes) |-> PhysicalPipe(p)]
           counts == [n \in sub_nodes |-> num_outputs_in_subgraph(n, phys)]
       IN /\ physical_pipes' = phys
          /\ num_send_ports_not_yet_ready' = counts
          \* `for node_key in nodes` walks a hash set: any order
          /\ ready' \in Perms(ready_at_start(sub_nodes, counts))
    /\ pipe_seq_offsets' = seq_offset_entries(pipe_seq_offsets, sub_pipes)
    /\ node_refs' = DOMAIN nodes
    /\ recv_ports' = <<>>
    /\ send_ports' = <<>>
    /\ spawned' = <<>>
    /\ join_handles' = <<>>
    /\ awaited' = 0
    /\ phase_ret' = None
    /\ pc' = "spawn"
    /\ UNCHANGED <<unit_vars, plan_vars, bg_vars, out, graph_vars, phases, sub_nodes, sub_pipes, ret>>

\* Mutant: the sender is pushed on `ready` at every decrement of its count.
RECURSIVE release_senders_pushes_always(_, _, _, _)
release_senders_pushes_always(inputs, i, phys, acc) ==
    IF i > Len(inputs) THEN acc
    ELSE LET sender == pipes[inputs[i]].sender
             next == IF inputs[i] \in DOMAIN phys /\ sender \in DOMAIN acc.count
                        /\ acc.count[sender] > 0
                     THEN [count |-> [acc.count EXCEPT ![sender] = @ - 1],
                           ready |-> Append(acc.ready, sender)]
                     ELSE acc
         IN CHOOSE res \in {release_senders_pushes_always(inputs, i + 1, phys, x) : x \in {next}} : TRUE

\* The re-insert loop over node.inputs: every receive port just handed out lowers
\* the count of the node at the other end and may make it ready.
RECURSIVE release_senders(_, _, _, _)
release_senders(inputs, i, phys, acc) ==
    IF i > Len(inputs) THEN acc
    ELSE LET sender == pipes[inputs[i]].sender
             next == IF inputs[i] \in DOMAIN phys /\ sender \in DOMAIN acc.count
                        /\ acc.count[sender] > 0
                     THEN [count |-> [acc.count EXCEPT ![sender] = @ - 1],
                           ready |-> IF acc.count[sender] = 1 THEN Append(acc.ready, sender)
                                     ELSE acc.ready]
                     ELSE acc
         IN CHOOSE res \in {release_senders(inputs, i + 1, phys, x) : x \in {next}} : TRUE

Task(owner, key) == [owner |-> owner, key |-> key, status |-> "running"]

\* The end of async_executor::task_scope: no task of the scope outlives it.
task_scope_end(handles) ==
    [i \in 1..Len(handles) |->
        IF handles[i].status = "running" THEN [handles[i] EXCEPT !.status = "cancelled"]
        ELSE handles[i]]

\* What spawn() leaves in a port slot it was handed: operators take every port, the
\* faulty one leaves its receive ports behind.
spawn_takes_recv_port(kind) == kind # "Leaky"

spawn_takes_send_port(kind) == TRUE

\* Mutant: the slots are not looked at after spawn().
ports_consumed_unchecked(recv, send) == TRUE

\* assert!(recv_ports.iter().all(|p| p.is_none())); the same for send_ports.
ports_consumed(recv, send) ==
    /\ \A i \in 1..Len(recv) : recv[i] = "None"
    /\ \A o \in 1..Len(send) : send[o] = "None"

SpawnNode ==
    /\ pc = "spawn"
    /\ ready # <<>>
    /\ LET node_key == Last(ready)
           node == nodes[node_key]
           r == release_senders(node.inputs, 1, physical_pipes,
                                [count |-> num_send_ports_not_yet_ready, ready |-> Front(ready)])
           \* a slot is Some when the pipe is part of the subgraph and spawn() left it
           recv == [i \in 1..Len(node.inputs) |->
                      IF node.inputs[i] \in DOMAIN physical_pipes /\ ~spawn_takes_recv_port(node.kind)
                      THEN "Some" ELSE "None"]
           send == [o \in 1..Len(node.outputs) |->
                      IF node.outputs[o] \in DOMAIN physical_pipes /\ ~spawn_takes_send_port(node.kind)
                      THEN "Some" ELSE "None"]
       IN /\ node_key \in node_refs
          /\ node_refs' = node_refs \ {node_key}
          /\ physical_pipes' = [p \in DOMAIN physical_pipes |->
                                  IF p \in Range(node.inputs)
                                  THEN [physical_pipes[p] EXCEPT !.recv_port = TRUE]
                                  ELSE IF p \in Range(node.outputs)
                                  THEN [physical_pipes[p] EXCEPT !.send_port = TRUE]
                                  ELSE physical_pipes[p]]
          /\ spawned' = Append(spawned, node_key)
          /\ recv_ports' = recv
          /\ send_ports' = send
          /\ IF ports_consumed(recv, send)
             THEN /\ join_handles' = Append(join_handles, Task("node", node_key))
                  /\ num_send_ports_not_yet_ready' = r.count
                  /\ ready' = r.ready
                  /\ pc' = pc
                  /\ ret' = ret
             ELSE \* the assertion fails: the panic unwinds through task_scope
                  /\ join_handles' = task_scope_end(Append(join_handles, Task("node", node_key)))
                  /\ num_send_ports_not_yet_ready' = num_send_ports_not_yet_ready
                  /\ ready' = Front(ready)
                  /\ pc' = "panicked"
                  /\ ret' = Panic
    /\ UNCHANGED <<unit_vars, plan_vars, bg_vars, out, pipe_seq_offsets, graph_vars, phases, sub_nodes, sub_pipes, awaited, phase_ret>>

\* Port modes asked for by the operators: a pipe between a serial and a parallel
\* end needs a distributor or linearizer task.
serial_send(kind) == kind \in {"Sort", "Union"}

serial_recv(kind) == kind \in {"Sink", "Union", "Stall", "Leaky"}

needs_task(p) == serial_send(nodes[pipes[p].sender].kind) # serial_recv(nodes[pipes[p].receiver].kind)

RECURSIVE pipe_tasks(_, _)
pipe_tasks(keys, i) ==
    IF i > Len(keys) THEN <<>>
    ELSE (IF needs_task(keys[i]) THEN <<Task("pipe", keys[i])>> ELSE <<>>) \o pipe_tasks(keys, i + 1)

SpawnPipes ==
    /\ pc = "spawn"
    /\ ready = <<>>
    /\ physical_pipes' = [p \in DOMAIN physical_pipes |-> [physical_pipes[p] EXCEPT !.spawned = TRUE]]
    /\ join_handles' = join_handles \o
           pipe_tasks(SelectSeq([p \in 1..Len(pipes) |-> p], LAMBDA p : p \in DOMAIN physical_pipes), 1)
    /\ pc' = "await"
    /\ UNCHANGED <<unit_vars, plan_vars, bg_vars, out, pipe_seq_offsets, graph_vars, phases, sub_nodes, sub_pipes, num_send_ports_not_yet_ready, ready,
                   node_refs, recv_ports, send_ports, spawned, awaited, phase_ret, ret>>

\* What the tasks of a node leave in its compute object once they ran to the end.
task_effect(kind, st) ==
    CASE kind = "Source" -> [st EXCEPT !.remaining = 0]
      [] kind = "Sort" /\ st.phase = "source" -> [st EXCEPT !.emitted = TRUE]
      [] OTHER -> st

\* The multiplexer sends what it buffered and what it receives on every output that has
\* a pipe in the phase.
multiplexer_send(st, ins, open) ==
    [o \in DOMAIN open |-> IF open[o] THEN st.buffers[o] \o ins[1] ELSE <<>>]

\* Mutant: what is received while an output has no pipe is dropped.
multiplexer_buffer_dropped(st, ins, open) == [o \in DOMAIN open |-> <<>>]

\* ... and buffers what it receives for the other outputs.
multiplexer_buffer(st, ins, open) ==
    [o \in DOMAIN open |-> IF open[o] THEN <<>> ELSE st.buffers[o] \o ins[1]]

\* The morsels a node's tasks send on each output once they ran to the end: ins[k] are
\* the morsels received on input k, open[o] tells whether output o has a pipe this phase.
task_output(kind, st, ins, open) ==
    CASE kind = "Source" ->
            <<SubSeq(st.rows, Len(st.rows) - st.remaining + 1, Len(st.rows))>>
      [] kind = "Map" -> <<ins[1]>>
      [] kind = "Sort" ->
            <<IF st.phase = "source" THEN SortSeq(st.rows, LAMBDA a, b : a < b) ELSE <<>>>>
      [] kind = "Union" -> <<Flatten(ins)>>
      [] kind = "Filter" -> <<SelectSeq(ins[1], LAMBDA r : r \in st.pass)>>
      [] kind = "Multiplexer" -> multiplexer_send(st, ins, open)
      [] OTHER -> [o \in DOMAIN open |-> <<>>]

\* Mutant: the sink keeps the first morsel it receives only.
task_store_first_only(kind, st, ins, open) ==
    CASE kind \in {"Sink", "Sort"} ->
            [st EXCEPT !.rows = @ \o (IF ins[1] = <<>> THEN <<>> ELSE <<ins[1][1]>>)]
      [] OTHER -> st

\* What a node's tasks keep of the morsels they received.
task_store(kind, st, ins, open) ==
    CASE kind \in {"Sink", "Sort", "Filter"} -> [st EXCEPT !.rows = @ \o ins[1]]
      [] kind = "Multiplexer" -> [st EXCEPT !.buffers = multiplexer_buffer(st, ins, open)]
      [] OTHER -> st

\* The morsels sent into a pipe, stamped from the pipe's sequence offset on.
stamped(morsels, offset) == {[seq |-> offset + i, row |-> morsels[i]] : i \in 1..Len(morsels)}

\* The single consumer takes the morsels of the lanes in the order of their stamps.
linearize(data) ==
    [i \in 1..Cardinality(data) |->
        (CHOOSE x \in data : Cardinality({y \in data : y.seq < x.seq}) = i - 1).row]

\* A receiving task runs to the end once its channels are closed: the tasks of the
\* senders of its pipes are over.
inputs_closed(n) ==
    \A k \in 1..Len(nodes[n].inputs) :
        nodes[n].inputs[k] \in DOMAIN physical_pipes =>
            \E j \in 1..Len(join_handles) :
                /\ join_handles[j].owner = "node"
                /\ join_handles[j].key = pipes[nodes[n].inputs[k]].sender
                /\ join_handles[j].status # "running"

received(n) ==
    [k \in 1..Len(nodes[n].inputs) |->
        IF nodes[n].inputs[k] \in DOMAIN physical_pipes
        THEN linearize(physical_pipes[nodes[n].inputs[k]].data) ELSE <<>>]

open_outputs(n) == [o \in 1..Len(nodes[n].outputs) |-> nodes[n].outputs[o] \in DOMAIN physical_pipes]

sent(n, p) ==
    task_output(nodes[n].kind, compute[n], received(n), open_outputs(n))[pipes[p].send_port + 1]

TaskFinish(i) ==
    /\ pc \in {"spawn", "await"}
    /\ join_handles[i].status = "running"
    /\ join_handles' = [join_handles EXCEPT ![i].status = "ok"]
    /\ IF join_handles[i].owner = "node"
       THEN /\ inputs_closed(join_handles[i].key)
            /\ compute' = [compute EXCEPT ![join_handles[i].key] =
                               task_store(nodes[join_handles[i].key].kind,
                                          task_effect(nodes[join_handles[i].key].kind, @),
                                          received(join_handles[i].key),
                                          open_outputs(join_handles[i].key))]
            /\ physical_pipes' =
                   [p \in DOMAIN physical_pipes |->
                       IF pipes[p].receiver = join_handles[i].key
                       THEN [physical_pipes[p] EXCEPT !.data = {}]
                       ELSE IF pipes[p].sender = join_handles[i].key
                       THEN [physical_pipes[p] EXCEPT !.data =
                                @ \cup stamped(sent(join_handles[i].key, p),
                                               pipe_seq_offsets[physical_pipes[p].seq_offset])]
                       ELSE physical_pipes[p]]
            /\ pipe_seq_offsets' =
                   [p \in DOMAIN pipe_seq_offsets |->
                       IF p \in DOMAIN physical_pipes /\ pipes[p].sender = join_handles[i].key
                       THEN pipe_seq_offsets[p] + Len(sent(join_handles[i].key, p))
                       ELSE pipe_seq_offsets[p]]
       ELSE UNCHANGED <<compute, physical_pipes, pipe_seq_offsets>>
    /\ UNCHANGED <<unit_vars, plan_vars, bg_vars, out, nodes, pipes, pc, phases, sub_nodes, sub_pipes,
                   num_send_ports_not_yet_ready, ready, node_refs, recv_ports, send_ports, spawned, awaited, phase_ret, ret>>

TaskFail(i) ==
    /\ pc \in {"spawn", "await"}
    /\ join_handles[i].status = "running"
    /\ Cardinality({j \in 1..Len(join_handles) : join_handles[j].status = "err"}) < MaxTaskErrors
    /\ join_handles' = [join_handles EXCEPT ![i].status = "err"]
    /\ UNCHANGED <<unit_vars, plan_vars, bg_vars, out, pipe_seq_offsets, graph_vars, pc, phases, sub_nodes, sub_pipes, physical_pipes,
                   num_send_ports_not_yet_ready, ready, node_refs, recv_ports, send_ports, spawned, awaited, phase_ret, ret>>

\* Mutant: an error is recorded but the loop goes on to the next handle.
AwaitHandle_keeps_awaiting ==
    /\ pc = "await"
    /\ awaited < Len(join_handles)
    /\ join_handles[awaited + 1].status # "running"
    /\ awaited' = awaited + 1
    /\ phase_ret' = IF join_handles[awaited + 1].status = "err" THEN Err(awaited + 1) ELSE phase_ret
    /\ UNCHANGED <<unit_vars, plan_vars, bg_vars, out, pipe_seq_offsets, graph_vars, pc, phases, sub_nodes, sub_pipes, physical_pipes,
                   num_send_ports_not_yet_ready, ready, node_refs, recv_ports, send_ports, spawned, join_handles, ret>>

\* One turn of `for handle in join_handles { handle.await?; }`.
AwaitHandle ==
    /\ pc = "await"
    /\ awaited < Len(join_handles)
    /\ join_handles[awaited + 1].status # "running"
    /\ awaited' = awaited + 1
    /\ IF join_handles[awaited + 1].status = "err"
       THEN phase_ret' = Err(awaited + 1) /\ pc' = "scope_exit"
       ELSE phase_ret' = phase_ret /\ pc' = pc
    /\ UNCHANGED <<unit_vars, plan_vars, bg_vars, out, pipe_seq_offsets, graph_vars, phases, sub_nodes, sub_pipes, physical_pipes,
                   num_send_ports_not_yet_ready, ready, node_refs, recv_ports, send_ports, spawned, join_handles, ret>>

\* Mutant: the loop ends one handle early.
AwaitLoopEnd_skips_last ==
    /\ pc = "await"
    /\ awaited + 1 >= Len(join_handles)
    /\ phase_ret' = Ok
    /\ pc' = "scope_exit"
    /\ UNCHANGED <<unit_vars, plan_vars, bg_vars, out, pipe_seq_offsets, graph_vars, phases, sub_nodes, sub_pipes, physical_pipes,
                   num_send_ports_not_yet_ready, ready, node_refs, recv_ports, send_ports, spawned, join_handles,
                   awaited, ret>>

AwaitLoopEnd ==
    /\ pc = "await"
    /\ awaited = Len(join_handles)
    /\ phase_ret' = Ok
    /\ pc' = "scope_exit"
    /\ UNCHANGED <<unit_vars, plan_vars, bg_vars, out, pipe_seq_offsets, graph_vars, phases, sub_nodes, sub_pipes, physical_pipes,
                   num_send_ports_not_yet_ready, ready, node_refs, recv_ports, send_ports, spawned, join_handles,
                   awaited, ret>>

\* Mutant: the tasks are not tied to the scope, the return leaves them as they are.
RunSubgraphReturn_detached_tasks ==
    /\ pc = "scope_exit"
    /\ IF phase_ret.tag = "Err"
       THEN pc' = "returned" /\ ret' = phase_ret
       ELSE pc' = "await_phase_tasks" /\ ret' = ret
    /\ UNCHANGED <<unit_vars, plan_vars, bg_vars, out, pipe_seq_offsets, graph_vars, phases, sub_nodes, sub_pipes, physical_pipes,
                   num_send_ports_not_yet_ready, ready, node_refs, recv_ports, send_ports, spawned, join_handles,
                   awaited, phase_ret>>

\* Mutant: run_subgraph refreshes the port states itself before it returns.
RunSubgraphReturn_updates_states ==
    /\ pc = "scope_exit"
    /\ join_handles' = task_scope_end(join_handles)
    /\ pipes' = update_all_states(nodes, pipes, compute).pipes
    /\ compute' = update_all_states(nodes, pipes, compute).compute
    /\ IF phase_ret.tag = "Err"
       THEN pc' = "returned" /\ ret' = phase_ret
       ELSE pc' = "await_phase_tasks" /\ ret' = ret
    /\ UNCHANGED <<unit_vars, plan_vars, bg_vars, out, pipe_seq_offsets, nodes, phases, sub_nodes, sub_pipes, physical_pipes,
                   num_send_ports_not_yet_ready, ready, node_refs, recv_ports, send_ports, spawned, awaited, phase_ret>>

RunSubgraphReturn ==
    /\ pc = "scope_exit"
    /\ join_handles' = task_scope_end(join_handles)
    /\ IF phase_ret.tag = "Err"
       THEN pc' = "returned" /\ ret' = phase_ret
       ELSE pc' = "await_phase_tasks" /\ ret' = ret
    /\ UNCHANGED <<unit_vars, plan_vars, bg_vars, out, pipe_seq_offsets, graph_vars, phases, sub_nodes, sub_pipes, physical_pipes,
                   num_send_ports_not_yet_ready, ready, node_refs, recv_ports, send_ports, spawned, awaited, phase_ret>>

\* Mutant: the driver leaves the loop after the phase instead of starting over.
AwaitPhaseSubphaseTasks_leaves_loop ==
    /\ pc = "await_phase_tasks"
    /\ LET h == try_recv(subphase_tasks)
       IN IF h = 0
          THEN pc' = "ensure_done" /\ ret' = ret /\ subphase_tasks' = subphase_tasks
          ELSE /\ subphase_tasks[h].status # "running"
               /\ subphase_tasks' = [subphase_tasks EXCEPT ![h].awaited = TRUE]
               /\ IF subphase_tasks[h].status = "err"
                  THEN pc' = "returned" /\ ret' = BackgroundErr
                  ELSE pc' = pc /\ ret' = ret
    /\ UNCHANGED <<unit_vars, plan_vars, query_tasks, out, pipe_seq_offsets, graph_vars, phases, run_vars>>

\* The drain after run_subgraph, then the loop starts over.
AwaitPhaseSubphaseTasks ==
    /\ pc = "await_phase_tasks"
    /\ LET h == try_recv(subphase_tasks)
       IN IF h = 0
          THEN pc' = "update" /\ ret' = ret /\ subphase_tasks' = subphase_tasks
          ELSE /\ subphase_tasks[h].status # "running"
               /\ subphase_tasks' = [subphase_tasks EXCEPT ![h].awaited = TRUE]
               /\ IF subphase_tasks[h].status = "err"
                  THEN pc' = "returned" /\ ret' = BackgroundErr
                  ELSE pc' = pc /\ ret' = ret
    /\ UNCHANGED <<unit_vars, plan_vars, query_tasks, out, pipe_seq_offsets, graph_vars, phases, run_vars>>

Next ==
    \/ EnsureConnected
    \/ UpdateAllStates
    \/ AwaitUpdateSubphaseTasks
    \/ FindRunnableSubgraph
    \/ ConstructPhysicalPipes
    \/ SpawnNode
    \/ SpawnPipes
    \/ \E i \in 1..Len(join_handles) : TaskFinish(i)
    \/ \E i \in 1..Len(join_handles) : TaskFail(i)
    \/ AwaitHandle
    \/ AwaitLoopEnd
    \/ RunSubgraphReturn
    \/ AwaitPhaseSubphaseTasks
    \/ EnsureDone
    \/ FinalizeQueryTasks
    \/ ExtractOutput

Spec == Init /\ [][Next]_vars

FairSpec == Spec /\ WF_vars(Next)

\* A graph in which one end of one pipe names another node or another port.
miswired(g, p, end, v) ==
    [g EXCEPT !.pipes[p] =
        CASE end = "sender" -> [@ EXCEPT !.sender = v]
          [] end = "send_port" -> [@ EXCEPT !.send_port = v - 1]
          [] end = "receiver" -> [@ EXCEPT !.receiver = v]
          [] end = "recv_port" -> [@ EXCEPT !.recv_port = v - 1]]

WiringGraphs ==
    {miswired(g, p, end, v) :
        g \in {Graphs[2], Graphs[6]}, p \in 1..2,
        end \in {"sender", "send_port", "receiver", "recv_port"}, v \in 1..3}

\* execute_graph called on graphs whose wiring may be wrong in one place.
WiringInit ==
    \E g \in WiringGraphs : \E morsels \in [Sources(g) -> 0..MaxMorsels] :
        /\ nodes = g.nodes
        /\ pipes = g.pipes
        /\ compute = [n \in 1..Len(g.nodes) |->
                        InitCompute(g.nodes[n].kind, IF n \in Sources(g) THEN morsels[n] ELSE 0)]
        /\ pc = "start"
        /\ phases = 0
        /\ sub_nodes = {}
        /\ sub_pipes = <<>>
        /\ physical_pipes = <<>>
        /\ num_send_ports_not_yet_ready = <<>>
        /\ ready = <<>>
        /\ node_refs = {}
        /\ recv_ports = <<>>
        /\ send_ports = <<>>
        /\ spawned = <<>>
        /\ join_handles = <<>>
        /\ awaited = 0
        /\ phase_ret = None
        /\ ret = None
        /\ unit_idle
        /\ subphase_tasks = <<>>
        /\ query_tasks = <<>>
        /\ out = <<>>
        /\ pipe_seq_offsets = <<>>
        /\ phys_sm = <<>>
        /\ plan_root = 0
        /\ plan_lowered = <<>>
        /\ plan_pc = "none"

WiringSpec == WiringInit /\ [][Next]_vars

\* The driver with operators that use spawn_subphase_task and spawn_query_task.
BackgroundNext ==
    \/ Next
    \/ spawn_subphase_task
    \/ spawn_query_task
    \/ \E i \in 1..Len(subphase_tasks), status \in {"ok", "err"} : SubphaseTaskEnds(i, status)
    \/ \E i \in 1..Len(query_tasks), status \in {"ok", "err"} : QueryTaskEnds(i, status)

BackgroundSpec == Init /\ [][BackgroundNext]_vars

\* ... and whose update_state may return an error.
ErrorNext ==
    \/ BackgroundNext
    \/ UpdateAllStatesFails

ErrorSpec == Init /\ [][ErrorNext]_vars

(* ------------------------------------------------------------------ *)
(* physical_plan/mod.rs: PhysNode, PhysStream, insert_multiplexers      *)
(* ------------------------------------------------------------------ *)
MaxPlanNodes == 4

PhysStream_first(node) == [node |-> node, port |-> 0]

\* A PhysNode: `inputs` are the PhysStream fields of its kind in the order
\* visit_node_inputs_mut visits them; `sinks` are the keys held by a SinkMultiple.
PhysNode(output_schema, kind, inputs, sinks) ==
    [output_schema |-> output_schema, kind |-> kind, inputs |-> inputs, sinks |-> sinks]

\* The closure of the first pass: *refcount.entry(*i).or_insert(0) += 1.
visit_count(refcount, i) ==
    [v |-> IF i \in DOMAIN refcount THEN [refcount EXCEPT ![i] = @ + 1] ELSE refcount @@ (i :> 1),
     i |-> i]

\* Mutant: the port of the multiplexer is not advanced after it is handed out.
visit_rewrite_same_port(multiplexer_map, i) ==
    IF i \in DOMAIN multiplexer_map
    THEN [v |-> multiplexer_map, i |-> multiplexer_map[i]]
    ELSE [v |-> multiplexer_map, i |-> i]

\* The closure of the second pass: if let Some(m) = map.get_mut(i) { *i = *m; m.port += 1; }
visit_rewrite(multiplexer_map, i) ==
    IF i \in DOMAIN multiplexer_map
    THEN [v |-> [multiplexer_map EXCEPT ![i].port = @ + 1], i |-> multiplexer_map[i]]
    ELSE [v |-> multiplexer_map, i |-> i]

visit(mode, v, i) == IF mode = "count" THEN visit_count(v, i) ELSE visit_rewrite(v, i)

\* The visit calls of one match arm, from slot k on. A SinkMultiple hands the closure a
\* temporary PhysStream::first(*sink): what the closure writes to it is dropped.
RECURSIVE visit_slots(_, _, _, _)
visit_slots(mode, node, k, v) ==
    IF node.kind = "SinkMultiple"
    THEN IF k > Len(node.sinks) THEN [node |-> node, v |-> v]
         ELSE CHOOSE res \in {visit_slots(mode, node, k + 1, r.v) :
                                 r \in {visit(mode, v, PhysStream_first(node.sinks[k]))}} : TRUE
    ELSE IF k > Len(node.inputs) THEN [node |-> node, v |-> v]
         ELSE CHOOSE res \in {visit_slots(mode, [node EXCEPT !.inputs[k] = r.i], k + 1, r.v) :
                                 r \in {visit(mode, v, node.inputs[k])}} : TRUE

\* The nodes the rec! calls of one match arm name, in call order.
rec_nodes(node) ==
    IF node.kind = "SinkMultiple" THEN node.sinks
    ELSE [k \in 1..Len(node.inputs) |-> node.inputs[k].node]

first_unseen(t, seen) ==
    LET idx == SelectSeq([k \in 1..Len(t) |-> k],
                         LAMBDA k : t[k] \notin seen /\ \A j \in 1..(k - 1) : t[j] # t[k])
    IN [k \in 1..Len(idx) |-> t[idx[k]]]

RECURSIVE visit_loop(_, _, _, _, _)
visit_loop(mode, to_visit, seen, sm, v) ==
    IF to_visit = <<>> THEN [phys_sm |-> sm, v |-> v]
    ELSE LET node == Last(to_visit)
             recs == rec_nodes(sm[node])
         IN CHOOSE res \in
                {visit_loop(mode, Front(to_visit) \o first_unseen(recs, seen),
                            seen \cup Range(recs), [sm EXCEPT ![node] = r.node], r.v) :
                     r \in {visit_slots(mode, sm[node], 1, v)}} : TRUE

visit_node_inputs_mut(mode, roots, sm, v) == visit_loop(mode, roots, Range(roots), sm, v)

count_refs(roots, sm) == visit_node_inputs_mut("count", roots, sm, <<>>).v

shared_streams(roots, sm) ==
    {stream \in DOMAIN count_refs(roots, sm) : count_refs(roots, sm)[stream] > 1}

\* Mutant: every multiplexer is given the output schema of the root.
insert_multiplexers_root_schema(roots, sm, order) ==
    LET with_multiplexers ==
            sm \o [k \in 1..Len(order) |->
                      PhysNode(sm[roots[1]].output_schema, "Multiplexer", <<order[k]>>, <<>>)]
        multiplexer_map ==
            [stream \in Range(order) |->
                PhysStream_first(Len(sm) + (CHOOSE k \in 1..Len(order) : order[k] = stream))]
    IN visit_node_inputs_mut("rewrite", roots, with_multiplexers, multiplexer_map).phys_sm

\* `order`: the order in which refcount.into_iter() yields the streams counted more
\* than once (a hash map: any order).
insert_multiplexers(roots, sm, order) ==
    LET with_multiplexers ==
            sm \o [k \in 1..Len(order) |->
                      PhysNode(sm[order[k].node].output_schema, "Multiplexer", <<order[k]>>, <<>>)]
        multiplexer_map ==
            [stream \in Range(order) |->
                PhysStream_first(Len(sm) + (CHOOSE k \in 1..Len(order) : order[k] = stream))]
    IN visit_node_inputs_mut("rewrite", roots, with_multiplexers, multiplexer_map).phys_sm

\* What lower_ir may leave in the arena: node k takes its inputs from earlier nodes
\* that have an output, a SinkMultiple names sink nodes.
has_output(kind) == kind \notin {"InMemorySink", "SinkMultiple"}

lowered_nodes(sm) ==
    LET k == Len(sm) + 1
        producers == {PhysStream_first(n) : n \in {m \in 1..Len(sm) : has_output(sm[m].kind)}}
        sink_keys == {m \in 1..Len(sm) : sm[m].kind = "InMemorySink"}
    IN {PhysNode(k, "InMemorySource", <<>>, <<>>)}
       \cup {PhysNode(k, kind, <<i>>, <<>>) : kind \in {"Filter", "InMemorySink"}, i \in producers}
       \cup {PhysNode(k, kind, <<l, r>>, <<>>) : kind \in {"EquiJoin", "OrderedUnion"},
                                                 l \in producers, r \in producers}
       \cup {PhysNode(k, "SinkMultiple", <<>>, <<a>>) : a \in sink_keys}
       \cup {PhysNode(k, "SinkMultiple", <<>>, <<a, b>>) : a \in sink_keys, b \in sink_keys}

RECURSIVE lowered_plans(_)
lowered_plans(n) ==
    IF n = 0 THEN {<<>>}
    ELSE UNION {{Append(sm, node) : node \in lowered_nodes(sm)} : sm \in lowered_plans(n - 1)}

PlanInit ==
    /\ phys_sm \in lowered_plans(MaxPlanNodes)
    /\ plan_lowered = phys_sm
    /\ plan_root = MaxPlanNodes
    /\ plan_pc = "lowered"
    /\ nodes = <<>>
    /\ pipes = <<>>
    /\ compute = <<>>
    /\ pc = "none"
    /\ phases = 0
    /\ sub_nodes = {}
    /\ sub_pipes = <<>>
    /\ physical_pipes = <<>>
    /\ num_send_ports_not_yet_ready = <<>>
    /\ ready = <<>>
    /\ node_refs = {}
    /\ recv_ports = <<>>
    /\ send_ports = <<>>
    /\ spawned = <<>>
    /\ join_handles = <<>>
    /\ awaited = 0
    /\ phase_ret = None
    /\ ret = None
    /\ unit_idle
    /\ subphase_tasks = <<>>
    /\ query_tasks = <<>>
    /\ out = <<>>
    /\ pipe_seq_offsets = <<>>

\* build_physical_plan after lower_ir: insert_multiplexers(vec![phys_root.node], phys_sm).
BuildPhysicalPlan ==
    /\ plan_pc = "lowered"
    /\ \E order \in Perms(shared_streams(<<plan_root>>, phys_sm)) :
           phys_sm' = insert_multiplexers(<<plan_root>>, phys_sm, order)
    /\ plan_pc' = "built"
    /\ UNCHANGED <<unit_vars, plan_root, plan_lowered, bg_vars, out, pipe_seq_offsets, graph_vars, pc, phases, run_vars, ret>>

PlanNext == BuildPhysicalPlan

PlanSpec == PlanInit /\ [][PlanNext]_vars

(* ------------------------------------------------------------------ *)
(* The diamond plan, from build_physical_plan to execute_graph         *)
(* ------------------------------------------------------------------ *)
\* Source -> {Filter, Filter} -> OrderedUnion -> InMemorySink as lower_ir leaves it.
diamond_plan ==
    <<PhysNode(1, "InMemorySource", <<>>, <<>>),
      PhysNode(1, "Filter", <<PhysStream_first(1)>>, <<>>),
      PhysNode(1, "Filter", <<PhysStream_first(1)>>, <<>>),
      PhysNode(1, "OrderedUnion", <<PhysStream_first(2), PhysStream_first(3)>>, <<>>),
      PhysNode(1, "InMemorySink", <<PhysStream_first(4)>>, <<>>)>>

DiamondInit ==
    /\ phys_sm = diamond_plan
    /\ plan_lowered = phys_sm
    /\ plan_root = Len(diamond_plan)
    /\ plan_pc = "lowered"
    /\ nodes = <<>>
    /\ pipes = <<>>
    /\ compute = <<>>
    /\ pc = "none"
    /\ phases = 0
    /\ sub_nodes = {}
    /\ sub_pipes = <<>>
    /\ physical_pipes = <<>>
    /\ num_send_ports_not_yet_ready = <<>>
    /\ ready = <<>>
    /\ node_refs = {}
    /\ recv_ports = <<>>
    /\ send_ports = <<>>
    /\ spawned = <<>>
    /\ join_handles = <<>>
    /\ awaited = 0
    /\ phase_ret = None
    /\ ret = None
    /\ unit_idle
    /\ subphase_tasks = <<>>
    /\ query_tasks = <<>>
    /\ out = <<>>
    /\ pipe_seq_offsets = <<>>

\* The compute node built for a PhysNode kind.
graph_kind(kind) ==
    CASE kind = "InMemorySource" -> "Source"
      [] kind = "Filter" -> "Filter"
      [] kind = "OrderedUnion" -> "Union"
      [] kind = "InMemorySink" -> "Sink"
      [] kind = "Multiplexer" -> "Multiplexer"

\* The input slots of the plan in (node, slot) order: each becomes one logical pipe.
slot_index(sm, n, k) ==
    Cardinality({c \in UNION {{<<m, j>> : j \in 1..Len(sm[m].inputs)} : m \in 1..Len(sm)} :
                    c[1] < n \/ (c[1] = n /\ c[2] <= k)})

to_graph_pipes(sm) ==
    LET slots == UNION {{<<m, j>> : j \in 1..Len(sm[m].inputs)} : m \in 1..Len(sm)}
    IN [i \in 1..Cardinality(slots) |->
           LET c == CHOOSE d \in slots : slot_index(sm, d[1], d[2]) = i
           IN LogicalPipe(sm[c[1]].inputs[c[2]].node, sm[c[1]].inputs[c[2]].port, c[1], c[2] - 1)]

to_graph_nodes(sm, ps) ==
    [n \in 1..Len(sm) |->
        GraphNode(graph_kind(sm[n].kind),
                  [k \in 1..Len(sm[n].inputs) |-> slot_index(sm, n, k)],
                  [o \in 1..Cardinality({p \in 1..Len(ps) : ps[p].sender = n}) |->
                      CHOOSE p \in 1..Len(ps) : ps[p].sender = n /\ ps[p].send_port = o - 1])]

\* to_graph: the plan becomes the graph execute_graph is run on. The source holds up to
\* MaxMorsels morsels and each filter lets a set of them pass.
ToGraph ==
    /\ plan_pc = "built"
    /\ pc = "none"
    /\ pipes' = to_graph_pipes(phys_sm)
    /\ nodes' = to_graph_nodes(phys_sm, to_graph_pipes(phys_sm))
    /\ \E morsels \in 0..MaxMorsels :
       \E pass \in [{n \in 1..Len(phys_sm) : phys_sm[n].kind = "Filter"} -> SUBSET (1..MaxMorsels)] :
           compute' = [n \in 1..Len(phys_sm) |->
                          [InitCompute(graph_kind(phys_sm[n].kind), morsels) EXCEPT
                              !.pass = IF n \in DOMAIN pass THEN pass[n] ELSE {}]]
    /\ pc' = "start"
    /\ UNCHANGED <<unit_vars, plan_vars, bg_vars, out, pipe_seq_offsets, phases, run_vars, ret>>

DiamondNext ==
    \/ BuildPhysicalPlan
    \/ ToGraph
    \/ Next

DiamondSpec == DiamondInit /\ [][DiamondNext]_vars

(* ------------------------------------------------------------------ *)
(* Properties of the driver                                            *)
(* ------------------------------------------------------------------ *)
all_pipes_done == \A p \in DOMAIN pipes : pipes[p].send_state = "Done" /\ pipes[p].recv_state = "Done"

in_phase == pc \in {"spawn", "await", "scope_exit"}

memory_intensive(S) == {n \in S : is_memory_intensive_pipeline_blocker(nodes[n].kind)}

runnable_blockers == Range(find_runnable_pipeline_blockers(nodes, pipes))

position(s, x) == CHOOSE i \in 1..Len(s) : s[i] = x

\* C2: for every pipe of the subgraph the receiver is spawned (recv_port called) strictly
\* before the sender (send_port called), and both before the physical pipe is spawned.
C2_ReceiverSpawnedBeforeSender ==
    in_phase =>
        \A p \in DOMAIN physical_pipes :
            /\ physical_pipes[p].recv_port = (pipes[p].receiver \in Range(spawned))
            /\ physical_pipes[p].send_port = (pipes[p].sender \in Range(spawned))
            /\ physical_pipes[p].send_port => physical_pipes[p].recv_port
            /\ pipes[p].sender \in Range(spawned) =>
                   position(spawned, pipes[p].receiver) < position(spawned, pipes[p].sender)
            /\ physical_pipes[p].spawned =>
                   physical_pipes[p].recv_port /\ physical_pipes[p].send_port

C2_Witness ==
    /\ pc = "await"
    /\ Cardinality(DOMAIN physical_pipes) >= 2
    /\ \A p \in DOMAIN physical_pipes : physical_pipes[p].spawned

\* C3: Ok is returned only with every pipe Done on both sides; with no runnable node and
\* a pipe not Done the driver leaves the loop and fails the assertion: it neither runs
\* another phase nor returns a result.
C3_OkOnlyWhenAllDone ==
    [][/\ (pc = "find" /\ find_runnable_subgraph(nodes, pipes).nodes = {}) => pc' = "ensure_done"
       /\ (pc = "ensure_done" /\ ~all_pipes_done) => (pc' = "panicked" /\ ret' = Panic)
       /\ pc' \in {"finalize_query_tasks", "extract_output"} => all_pipes_done'
       /\ ret'.tag = "Ok" => (pc' = "returned" /\ all_pipes_done')]_vars

C3_Witness == pc = "panicked" /\ ret = Panic /\ ~all_pipes_done /\ runnable_blockers = {}

follows_protocol == \A n \in DOMAIN nodes : nodes[n].kind \notin {"Stall", "Leaky"}

task_failed == \E i \in 1..Len(join_handles) : join_handles[i].status = "err"

\* C4: on a graph whose operators follow the port-state protocol, and unless a task
\* fails, the driver loop ends after finitely many phases with every pipe Done on
\* both sides.
C4_DriverTerminatesAllDone ==
    follows_protocol => <>(task_failed \/ (pc = "returned" /\ ret = Ok /\ all_pipes_done))

C4_Witness == pc = "returned" /\ ret = Ok /\ all_pipes_done /\ phases >= 3

is_pipeline_blocker(kind) == kind \in {"Sort", "Sink", "Stall", "Leaky"}

RECURSIVE blocker_chain(_)
blocker_chain(n) ==
    (IF is_pipeline_blocker(nodes[n].kind) THEN 1 ELSE 0)
    + (IF nodes[n].inputs = <<>> THEN 0
       ELSE SetMax({blocker_chain(pipes[nodes[n].inputs[i]].sender) : i \in 1..Len(nodes[n].inputs)}))

longest_blocker_chain == SetMax({blocker_chain(n) : n \in DOMAIN nodes})

C6_DoneIsFinal ==
    [][\A p \in DOMAIN pipes :
           /\ pipes[p].send_state = "Done" => pipes'[p].send_state = "Done"
           /\ pipes[p].recv_state = "Done" => pipes'[p].recv_state = "Done"]_vars

C6_Witness ==
    /\ pc = "await_update_tasks"
    /\ phases >= 2
    /\ \E p \in DOMAIN pipes : pipes[p].send_state = "Done" /\ pipes[p].recv_state = "Done"
    /\ \E p \in DOMAIN pipes : pipes[p].send_state = "Ready" /\ pipes[p].recv_state = "Ready"

\* C7: the await loop stops at the first join handle (in handle order) that yields an
\* error, awaits none after it, and that error is what execute_graph returns.
C7_FirstErrorReturned ==
    /\ phase_ret.tag = "Err" =>
           /\ pc \in {"scope_exit", "returned"}
           /\ awaited = phase_ret.err
           /\ join_handles[phase_ret.err].status = "err"
           /\ \A j \in 1..(phase_ret.err - 1) : join_handles[j].status = "ok"
    /\ (pc = "returned" /\ phase_ret.tag = "Err") => ret = phase_ret
    /\ (pc \in {"scope_exit", "returned"} /\ task_failed
            /\ \E i \in 1..awaited : join_handles[i].status = "err") => phase_ret.tag = "Err"

C7_Witness ==
    /\ pc = "returned"
    /\ ret.tag = "Err"
    /\ ret.err < Len(join_handles)
    /\ \E j \in (ret.err + 1)..Len(join_handles) : join_handles[j].status = "err"

between_phases ==
    pc \in {"update", "await_update_tasks", "find", "run", "await_phase_tasks", "ensure_done",
            "finalize_query_tasks", "extract_output"}

\* C9: outside run_subgraph the driver finds every task of the last phase completed:
\* none is running when update_state is called or when a node is spawned again.
C9_TasksCompleteBeforeDriverTouchesNodes ==
    between_phases => \A i \in 1..Len(join_handles) : join_handles[i].status = "ok"

C9_Witness == pc = "update" /\ phases >= 1 /\ Len(join_handles) >= 2

\* C13: in every phase every runnable pipeline blocker that is not memory intensive is in
\* the subgraph of that phase and is spawned in it, whatever memory intensive blockers
\* are runnable.
C13_CheapBlockersNeverDeferred ==
    /\ (pc = "run" \/ in_phase) =>
           \A n \in runnable_blockers :
               ~is_memory_intensive_pipeline_blocker(nodes[n].kind) => n \in sub_nodes
    /\ pc \in {"await", "scope_exit"} => Range(spawned) = sub_nodes

C13_Witness ==
    /\ pc = "await"
    /\ memory_intensive(runnable_blockers) # {}
    /\ \E n \in runnable_blockers \cap Range(spawned) :
           ~is_memory_intensive_pipeline_blocker(nodes[n].kind)

NodeKeys == UNION {DOMAIN Graphs[g].nodes : g \in DOMAIN Graphs}

\* A memory intensive runnable blocker that find_runnable_subgraph left out of the phase.
deferred(n) ==
    /\ pc = "run"
    /\ n \in memory_intensive(runnable_blockers)
    /\ n \notin sub_nodes

\* C14: a memory intensive runnable blocker left out of a phase is spawned in a later
\* phase, unless a task fails and execute_graph returns the error.
C14_NoMemoryIntensiveBlockerStarves ==
    \A n \in NodeKeys :
        deferred(n) ~> ((in_phase /\ n \in Range(spawned)) \/ ret.tag = "Err")

\* Two sorts fed by sources of their own; one has consumed its input in the first
\* phase, the other was left out of it and consumes its input now.
C14_Witness ==
    /\ pc = "await"
    /\ phases = 2
    /\ \E x, y \in DOMAIN nodes :
           /\ x # y
           /\ nodes[x].kind = "Sort" /\ nodes[y].kind = "Sort"
           /\ nodes[pipes[nodes[x].inputs[1]].sender].kind = "Source"
           /\ nodes[pipes[nodes[y].inputs[1]].sender].kind = "Source"
           /\ x \in Range(spawned) /\ compute[x].phase = "sink"
           /\ compute[y].phase # "sink"

some_port_left ==
    \/ \E i \in 1..Len(recv_ports) : recv_ports[i] = "Some"
    \/ \E o \in 1..Len(send_ports) : send_ports[o] = "Some"

\* C18: after every spawn() of a node the driver goes on only with every port slot None:
\* the slots are those of the node spawned last, and a slot left Some stops the driver
\* with a panic before another node or a pipe is spawned and before any task is awaited.
C18_PortSlotsConsumedOrPanic ==
    /\ (in_phase /\ spawned # <<>>) =>
           /\ Len(recv_ports) = Len(nodes[Last(spawned)].inputs)
           /\ Len(send_ports) = Len(nodes[Last(spawned)].outputs)
           /\ ~some_port_left
    /\ some_port_left =>
           /\ pc = "panicked" /\ ret = Panic
           /\ awaited = 0
           /\ \A p \in DOMAIN physical_pipes : ~physical_pipes[p].spawned
           /\ ~spawn_takes_recv_port(nodes[Last(spawned)].kind)

C18_Witness ==
    /\ pc = "panicked"
    /\ some_port_left
    /\ sub_nodes \ Range(spawned) # {}

\* The subphase of a background task: the part of the driver loop in which it was sent.
in_subphase_of(t) ==
    /\ phases = t.iter
    /\ IF t.at = "update"
       THEN pc \in {"update", "await_update_tasks"}
       ELSE pc \in {"spawn", "await", "scope_exit", "await_phase_tasks"}

driver_failed == pc \in {"returned", "panicked"} /\ ret.tag # "Ok"

outputs_of(ns, cs) == {n \in DOMAIN ns : get_output(ns[n].kind, cs[n]).tag = "Some"}

\* C17: when execute_graph returns Ok the returned map has an entry for exactly the nodes
\* whose get_output() is Some, holding that output; and the map is filled only after the
\* driver loop has ended, with every pipe Done on both sides and every query task awaited.
C17_OutputOnlyFromNodesWithOutput ==
    /\ [](ret.tag = "Ok" =>
            /\ DOMAIN out = outputs_of(nodes, compute)
            /\ \A n \in DOMAIN out : out[n] = get_output(nodes[n].kind, compute[n]).df)
    /\ [][out' # out =>
            /\ pc = "extract_output"
            /\ all_pipes_done
            /\ \A i \in 1..Len(query_tasks) : query_tasks[i].awaited]_vars

C17_Witness ==
    /\ ret.tag = "Ok"
    /\ DOMAIN out # {}
    /\ DOMAIN out # DOMAIN nodes
    /\ query_tasks # <<>>

source_sink == Len(nodes) = 2 /\ nodes[1].kind = "Source" /\ nodes[2].kind = "Sink"

\* C15: on Source -> in-memory Sink, execute_graph returns for the sink exactly the
\* morsels of the source in the order the source produced them, with the pipe Done on
\* both sides; and the call does return unless a task fails.
C15_SinkReturnsSourceMorselsInOrder ==
    /\ [](source_sink /\ ret.tag = "Ok" =>
            /\ DOMAIN out = {2}
            /\ out[2] = compute[1].rows
            /\ out[2] = [k \in 1..Len(out[2]) |-> k]
            /\ pipes[1].send_state = "Done" /\ pipes[1].recv_state = "Done")
    /\ (source_sink => <>(task_failed \/ ret.tag = "Ok"))

C15_Witness ==
    /\ source_sink
    /\ ret.tag = "Ok"
    /\ 2 \in DOMAIN out
    /\ Len(out[2]) = MaxMorsels
    /\ MaxMorsels >= 2

\* The rows of the source that a filter lets pass.
passing(n) == SelectSeq(compute[1].rows, LAMBDA r : r \in compute[n].pass)

\* C16: on the diamond plan build_physical_plan puts one Multiplexer behind the source
\* and wires the two filters to its ports 0 and 1; when execute_graph returns Ok each
\* filter has received every row of the source exactly once, in order, and the sink
\* holds as many rows as pass the first filter plus as many as pass the second.
C16_DiamondRowsNeitherLostNorDuplicated ==
    /\ plan_pc = "built" =>
           /\ Len(phys_sm) = Len(diamond_plan) + 1
           /\ \E m \in 1..Len(phys_sm) :
                  /\ phys_sm[m].kind = "Multiplexer"
                  /\ phys_sm[m].inputs = <<PhysStream_first(1)>>
                  /\ {phys_sm[2].inputs[1], phys_sm[3].inputs[1]} =
                         {[node |-> m, port |-> 0], [node |-> m, port |-> 1]}
    /\ ret.tag = "Ok" =>
           /\ compute[2].rows = compute[1].rows
           /\ compute[3].rows = compute[1].rows
           /\ DOMAIN out = {plan_root}
           /\ Len(out[plan_root]) = Len(passing(2)) + Len(passing(3))
           /\ out[plan_root] = passing(2) \o passing(3)

C16_Witness ==
    /\ plan_pc = "built"
    /\ ret.tag = "Ok"
    /\ phases = 2
    /\ Len(compute[1].rows) = MaxMorsels
    /\ compute[2].pass = {1}
    /\ compute[3].pass = 1..MaxMorsels
    /\ Len(out[plan_root]) = MaxMorsels + 1

\* Every node is named by its i-th input pipe as receiver at port i and by its i-th
\* output pipe as sender at port i (ports count from 0).
wired_as_required ==
    \A n \in DOMAIN nodes :
        /\ \A i \in 1..Len(nodes[n].inputs) :
               LET pipe == pipes[nodes[n].inputs[i]] IN pipe.receiver = n /\ pipe.recv_port + 1 = i
        /\ \A o \in 1..Len(nodes[n].outputs) :
               LET pipe == pipes[nodes[n].outputs[o]] IN pipe.sender = n /\ pipe.send_port + 1 = o

\* C21: execute_graph checks the wiring first. On a graph where some i-th input pipe of
\* a node does not name it as receiver with recv_port = i, or some i-th output pipe does
\* not name it as sender with send_port = i, the only step of the driver is the failing
\* assertion: a panic, not an Err, with no update_state, no phase and no output before it.
C21_WiringCheckedBeforeFirstUpdate ==
    /\ [](~wired_as_required =>
            /\ pc \in {"start", "panicked"}
            /\ pc = "panicked" => ret = Panic
            /\ phases = 0 /\ spawned = <<>> /\ join_handles = <<>> /\ out = <<>>
            /\ \A p \in DOMAIN pipes : pipes[p].send_state = "Blocked" /\ pipes[p].recv_state = "Blocked")
    /\ [][pc = "start" => (IF wired_as_required THEN pc' = "update" /\ ret' = ret
                                                ELSE pc' = "panicked" /\ ret' = Panic)]_vars

C21_Witness ==
    /\ pc = "panicked"
    /\ ret = Panic
    /\ \E n \in DOMAIN nodes : \E o \in 1..Len(nodes[n].outputs) :
           pipes[nodes[n].outputs[o]].sender = n /\ pipes[nodes[n].outputs[o]].send_port # o - 1
    /\ \A n \in DOMAIN nodes : \A i \in 1..Len(nodes[n].inputs) :
           pipes[nodes[n].inputs[i]].receiver = n /\ pipes[nodes[n].inputs[i]].recv_port = i - 1

\* C22: an error ends the call. When update_all_states returns an error, when the driver
\* awaits a background task that failed, or when the await loop of run_subgraph meets a
\* failed task, execute_graph returns that error; from then on no step is taken: no
\* update_state, no spawn, no get_output.
C22_NoStepAfterError ==
    /\ [](ret.tag = "Err" => pc = "returned" /\ out = <<>>)
    /\ [](phase_ret.tag = "Err" => pc \in {"scope_exit", "returned"})
    /\ [][/\ pc # "returned"
          /\ (phase_ret.tag = "Err" /\ pc = "scope_exit") =>
                 (/\ pc' \in {"scope_exit", "returned"}
                  /\ pc' = "returned" => ret' = phase_ret
                  /\ compute' = compute /\ pipes' = pipes /\ spawned' = spawned)
          /\ \A i \in 1..Len(subphase_tasks) :
                 (subphase_tasks[i].status = "err" /\ ~subphase_tasks[i].awaited
                    /\ subphase_tasks'[i].awaited) => (pc' = "returned" /\ ret' = BackgroundErr)
          /\ \A i \in 1..Len(query_tasks) :
                 (query_tasks[i].status = "err" /\ ~query_tasks[i].awaited
                    /\ query_tasks'[i].awaited) => (pc' = "returned" /\ ret' = BackgroundErr)]_vars

C22_Witness ==
    /\ pc = "returned"
    /\ ret = UpdateErr
    /\ phases >= 1
    /\ spawned # <<>>
    /\ \E p \in DOMAIN pipes : pipes[p].send_state # "Done"

(* ------------------------------------------------------------------ *)
(* Properties of the physical plan                                     *)
(* ------------------------------------------------------------------ *)
\* The streams the input slots of a node refer to, slot by slot.
refs(sm, n) ==
    IF sm[n].kind = "SinkMultiple" THEN [k \in 1..Len(sm[n].sinks) |-> PhysStream_first(sm[n].sinks[k])]
    ELSE sm[n].inputs

RECURSIVE reachable_from(_, _)
reachable_from(sm, S) ==
    LET T == S \cup UNION {{refs(sm, n)[k].node : k \in 1..Len(refs(sm, n))} : n \in S}
    IN IF T = S THEN S ELSE reachable_from(sm, T)

\* The input slots <<node, slot>> of nodes reachable from the root that refer to a stream.
consumers(sm, root, stream) ==
    {c \in UNION {{<<n, k>> : k \in 1..Len(refs(sm, n))} : n \in reachable_from(sm, {root})} :
        refs(sm, c[1])[c[2]] = stream}

multiplexers_of(sm, stream) ==
    {m \in DOMAIN sm : sm[m].kind = "Multiplexer" /\ sm[m].inputs = <<stream>>}

rewired(stream) ==
    LET cons == consumers(plan_lowered, plan_root, stream)
    IN IF Cardinality(cons) > 1
       THEN /\ Cardinality(multiplexers_of(phys_sm, stream)) = 1
            /\ \A c \in cons : refs(phys_sm, c[1])[c[2]].node \in multiplexers_of(phys_sm, stream)
            /\ \A c, d \in cons : c # d => refs(phys_sm, c[1])[c[2]] # refs(phys_sm, d[1])[d[2]]
       ELSE /\ multiplexers_of(phys_sm, stream) = {}
            /\ \A c \in cons : refs(phys_sm, c[1])[c[2]] = stream

shared_by_sink_multiple(stream) ==
    \E c \in consumers(plan_lowered, plan_root, stream) : plan_lowered[c[1]].kind = "SinkMultiple"

\* The rewiring is complete for every stream that no SinkMultiple refers to.
SharedStreamsRewiredExceptSinkMultiple ==
    plan_pc = "built" =>
        \A n \in DOMAIN plan_lowered :
            ~shared_by_sink_multiple(PhysStream_first(n)) => rewired(PhysStream_first(n))

\* The PhysStream-valued input slots <<node, slot>> of the nodes reachable from the root.
stream_slots(sm, root) ==
    UNION {{<<n, k>> : k \in 1..Len(sm[n].inputs)} : n \in reachable_from(sm, {root})}

\* C11: after build_physical_plan no two input slots of the plan, the inputs of the
\* inserted multiplexers included, refer to the same stream (node, port).
C11_EveryStreamSingleConsumer ==
    plan_pc = "built" =>
        \A c, d \in stream_slots(phys_sm, plan_root) :
            c # d => phys_sm[c[1]].inputs[c[2]] # phys_sm[d[1]].inputs[d[2]]

C11_Witness ==
    /\ plan_pc = "built"
    /\ \E m \in reachable_from(phys_sm, {plan_root}) :
           /\ phys_sm[m].kind = "Multiplexer"
           /\ \E c, d \in stream_slots(phys_sm, plan_root) :
                  /\ phys_sm[c[1]].inputs[c[2]] = [node |-> m, port |-> 0]
                  /\ phys_sm[d[1]].inputs[d[2]] = [node |-> m, port |-> 1]

\* C12: every Multiplexer inserted by insert_multiplexers carries the output schema of
\* the node that produces its input stream.
C12_MultiplexerKeepsSchema ==
    plan_pc = "built" =>
        \A m \in DOMAIN phys_sm :
            phys_sm[m].kind = "Multiplexer" =>
                /\ Len(phys_sm[m].inputs) = 1
                /\ phys_sm[m].output_schema = phys_sm[phys_sm[m].inputs[1].node].output_schema

C12_Witness ==
    /\ plan_pc = "built"
    /\ \E m \in DOMAIN phys_sm :
           /\ phys_sm[m].kind = "Multiplexer"
           /\ phys_sm[m].inputs[1].node # plan_root
           /\ has_output(phys_sm[phys_sm[m].inputs[1].node].kind)

(* ------------------------------------------------------------------ *)
(* polars-arrow: Bitmap (bitmap/immutable.rs)                          *)
(* ------------------------------------------------------------------ *)
\* usize and u64 keep a width: usize has UsizeBits bits, u64 has U64Bits bits.
UsizeBits == 7

\* The number of calls made on one bitmap, its constructor included.
MaxCalls == 5

U64Bits == 9

USIZE_MAX == 2^UsizeBits - 1

\* (self.length / 5).max(32), (self.length / 4).max(32)
SMALL_PORTION == 32

\* const UNKNOWN_BIT_COUNT: u64 = u64::MAX
UNKNOWN_BIT_COUNT == 2^U64Bits - 1

\* a + b, a - b on usize in a build without overflow checks
wrapping_add(a, b) == (a + b) % 2^UsizeBits

wrapping_sub(a, b) == (a - b) % 2^UsizeBits

\* a - b on u64 in a build without overflow checks
wrapping_sub_u64(a, b) == (a - b) % 2^U64Bits

saturating_mul(a, b) == IF a * b > USIZE_MAX THEN USIZE_MAX ELSE a * b

saturating_add(a, b) == IF a + b > USIZE_MAX THEN USIZE_MAX ELSE a + b

div_ceil(a, b) == (a + b - 1) \div b

\* ubcc >> 63 == 0: the top bit of the u64 is clear
has_cached_unset_bit_count(ubcc) == ubcc \div 2^(U64Bits - 1) = 0

\* The bit at position i of a byte slice, least significant bit of a byte first.
get_bit(bytes, i) == (bytes[(i \div 8) + 1] \div 2^(i % 8)) % 2

\* Whether the bits [offset, offset + length) lie in the byte slice.
in_bytes(bytes, offset, length) == offset + length <= Len(bytes) * 8

\* utils::count_zeros(slice, offset, len), on a range inside the slice
count_zeros(bytes, offset, length) ==
    Cardinality({i \in offset..(offset + length - 1) : get_bit(bytes, i) = 0})

\* utils::leading_zeros / leading_ones / trailing_zeros / trailing_ones
leading(bytes, offset, length, value) ==
    LET others == {i \in 0..(length - 1) : get_bit(bytes, offset + i) # value}
    IN IF others = {} THEN length ELSE CHOOSE i \in others : \A j \in others : i <= j

trailing(bytes, offset, length, value) ==
    LET others == {i \in 0..(length - 1) : get_bit(bytes, offset + i) # value}
    IN IF others = {} THEN length ELSE length - 1 - SetMax(others)

Bitmap(storage, offset, length, unset_bit_count_cache) ==
    [tag |-> "Bitmap", storage |-> storage, offset |-> offset, length |-> length,
     unset_bit_count_cache |-> unset_bit_count_cache]

Panicked == [tag |-> "Panic"]

BitmapErr == [tag |-> "Err"]

\* Bitmap::new(), the derived Default
Bitmap_new == Bitmap(<<>>, 0, 0, 0)

check_wrapping_mul(bytes, offset, length) ==
    IF offset + length > (Len(bytes) * 8) % 2^UsizeBits THEN "Err" ELSE "Ok"

check(bytes, offset, length) ==
    IF offset + length > saturating_mul(Len(bytes), 8) THEN "Err" ELSE "Ok"

try_new(bytes, length) ==
    IF check(bytes, 0, length) = "Err" THEN BitmapErr
    ELSE Bitmap(bytes, 0, length, IF length = 0 THEN 0 ELSE UNKNOWN_BIT_COUNT)

from_inner_unchecked(storage, offset, length, unset_bits) ==
    Bitmap(storage, offset, length,
           IF unset_bits = <<>> THEN UNKNOWN_BIT_COUNT ELSE unset_bits[1])

new_zeroed(length) ==
    LET bytes_needed == div_ceil(length, 8)
    IN Bitmap([i \in 1..bytes_needed |-> 0], 0, length, length)

new_with_value(value, length) ==
    IF ~value THEN new_zeroed(length)
    ELSE from_inner_unchecked([i \in 1..(saturating_add(length, 7) \div 8) |-> 255],
                              0, length, <<0>>)

len(self) == self.length

lazy_unset_bits(self) ==
    IF has_cached_unset_bit_count(self.unset_bit_count_cache)
    THEN <<self.unset_bit_count_cache>> ELSE <<>>

\* unset_bits(): the pair of the bitmap with its cache filled and the count returned
unset_bits(self) ==
    IF lazy_unset_bits(self) # <<>> THEN <<self, lazy_unset_bits(self)[1]>>
    ELSE LET zeros == count_zeros(self.storage, self.offset, self.length)
         IN <<[self EXCEPT !.unset_bit_count_cache = zeros], zeros>>

set_bits(self) == self.length - unset_bits(self)[2]

slice_unchecked_keeps_count(self, offset, length) ==
    IF offset = 0 /\ length = self.length THEN self
    ELSE [self EXCEPT !.offset = wrapping_add(self.offset, offset), !.length = length]

slice_unchecked(self, offset, length) ==
    LET ubcc == self.unset_bit_count_cache
        moved == [self EXCEPT !.offset = wrapping_add(self.offset, offset), !.length = length]
    IN IF offset = 0 /\ length = self.length THEN self
       ELSE IF ubcc = 0 \/ ubcc = self.length
       THEN [moved EXCEPT !.unset_bit_count_cache = IF ubcc > 0 THEN length ELSE 0]
       ELSE IF has_cached_unset_bit_count(ubcc)
       THEN LET small_portion == SetMax({self.length \div 5, SMALL_PORTION})
            IN IF wrapping_add(length, small_portion) >= self.length
               THEN LET slice_end == wrapping_add(wrapping_add(self.offset, offset), length)
                        tail_length == wrapping_sub(wrapping_sub(self.length, length), offset)
                    IN IF in_bytes(self.storage, self.offset, offset)
                          /\ in_bytes(self.storage, slice_end, tail_length)
                       THEN LET head_count == count_zeros(self.storage, self.offset, offset)
                                tail_count == count_zeros(self.storage, slice_end, tail_length)
                            IN [moved EXCEPT !.unset_bit_count_cache =
                                   wrapping_sub_u64(wrapping_sub_u64(ubcc, head_count), tail_count)]
                       ELSE Panicked   \* count_zeros outside the buffer
               ELSE [moved EXCEPT !.unset_bit_count_cache = UNKNOWN_BIT_COUNT]
       ELSE moved

slice_checked_sum(self, offset, length) ==
    IF offset + length <= self.length THEN slice_unchecked(self, offset, length) ELSE Panicked

\* slice(): assert!(offset + length <= self.length), then slice_unchecked. The sum is a
\* usize sum: it panics on overflow in a build with overflow checks and wraps in one without.
slice(self, offset, length) ==
    IF overflow_checks /\ offset + length > USIZE_MAX THEN Panicked
    ELSE IF wrapping_add(offset, length) <= self.length
    THEN slice_unchecked(self, offset, length)
    ELSE Panicked

sliced(self, offset, length) ==
    IF overflow_checks /\ offset + length > USIZE_MAX THEN Panicked
    ELSE IF wrapping_add(offset, length) <= self.length
    THEN slice_unchecked(self, offset, length)
    ELSE Panicked

\* take_leading_zeros (value = 0) / take_leading_ones (value = 1): the pair of the bitmap
\* left and the number of bits taken
take_leading(self, value) ==
    LET all == IF value = 0 THEN self.length ELSE 0
    IN IF lazy_unset_bits(self) = <<all>>
       THEN <<[self EXCEPT !.offset = self.offset + self.length, !.length = 0,
                           !.unset_bit_count_cache = 0], self.length>>
       ELSE LET n == leading(self.storage, self.offset, self.length, value)
            IN <<[self EXCEPT !.offset = self.offset + n, !.length = self.length - n,
                              !.unset_bit_count_cache =
                                  IF value = 0 /\ has_cached_unset_bit_count(@) THEN wrapping_sub_u64(@, n) ELSE @], n>>

\* Mutant: the bits are counted from the front but taken from the back.
take_trailing_counts_leading(self, value) ==
    LET all == IF value = 0 THEN self.length ELSE 0
    IN IF lazy_unset_bits(self) = <<all>>
       THEN <<[self EXCEPT !.length = 0, !.unset_bit_count_cache = 0], self.length>>
       ELSE LET n == leading(self.storage, self.offset, self.length, value)
            IN <<[self EXCEPT !.length = self.length - n,
                              !.unset_bit_count_cache =
                                  IF value = 0 /\ has_cached_unset_bit_count(@) THEN wrapping_sub_u64(@, n) ELSE @], n>>

\* take_trailing_zeros (value = 0) / take_trailing_ones (value = 1)
take_trailing(self, value) ==
    LET all == IF value = 0 THEN self.length ELSE 0
    IN IF lazy_unset_bits(self) = <<all>>
       THEN <<[self EXCEPT !.length = 0, !.unset_bit_count_cache = 0], self.length>>
       ELSE LET n == trailing(self.storage, self.offset, self.length, value)
            IN <<[self EXCEPT !.length = self.length - n,
                              !.unset_bit_count_cache =
                                  IF value = 0 /\ has_cached_unset_bit_count(@) THEN wrapping_sub_u64(@, n) ELSE @], n>>

\* Mutant: after the recount of the left part the right part keeps the whole count.
split_at_unchecked_keeps_count(self, offset) ==
    IF offset = 0 THEN <<Bitmap_new, self>>
    ELSE IF offset = len(self) THEN <<self, Bitmap_new>>
    ELSE LET ubcc == self.unset_bit_count_cache
             lhs_length == offset
             rhs_length == self.length - offset
             small_portion == SetMax({self.length \div 4, SMALL_PORTION})
             counts ==
                 IF ~has_cached_unset_bit_count(ubcc) THEN <<UNKNOWN_BIT_COUNT, UNKNOWN_BIT_COUNT>>
                 ELSE IF ubcc = 0 THEN <<0, 0>>
                 ELSE IF ubcc = self.length THEN <<offset, self.length - offset>>
                 ELSE IF lhs_length <= rhs_length
                 THEN IF rhs_length + small_portion >= self.length
                      THEN LET count == count_zeros(self.storage, self.offset, lhs_length)
                           IN <<count, ubcc>>
                      ELSE <<UNKNOWN_BIT_COUNT, UNKNOWN_BIT_COUNT>>
                 ELSE IF lhs_length + small_portion >= self.length
                      THEN LET count == count_zeros(self.storage, self.offset + offset, rhs_length)
                           IN <<wrapping_sub_u64(ubcc, count), count>>
                      ELSE <<UNKNOWN_BIT_COUNT, UNKNOWN_BIT_COUNT>>
         IN <<Bitmap(self.storage, self.offset, lhs_length, counts[1]),
              Bitmap(self.storage, self.offset + offset, rhs_length, counts[2])>>

check_bound(self, offset) == offset <= len(self)

split_at_unchecked(self, offset) ==
    IF offset = 0 THEN <<Bitmap_new, self>>
    ELSE IF offset = len(self) THEN <<self, Bitmap_new>>
    ELSE LET ubcc == self.unset_bit_count_cache
             lhs_length == offset
             rhs_length == self.length - offset
             small_portion == SetMax({self.length \div 4, SMALL_PORTION})
             counts ==
                 IF ~has_cached_unset_bit_count(ubcc) THEN <<UNKNOWN_BIT_COUNT, UNKNOWN_BIT_COUNT>>
                 ELSE IF ubcc = 0 THEN <<0, 0>>
                 ELSE IF ubcc = self.length THEN <<offset, self.length - offset>>
                 ELSE IF lhs_length <= rhs_length
                 THEN IF rhs_length + small_portion >= self.length
                      THEN LET count == count_zeros(self.storage, self.offset, lhs_length)
                           IN <<count, wrapping_sub_u64(ubcc, count)>>
                      ELSE <<UNKNOWN_BIT_COUNT, UNKNOWN_BIT_COUNT>>
                 ELSE IF lhs_length + small_portion >= self.length
                      THEN LET count == count_zeros(self.storage, self.offset + offset, rhs_length)
                           IN <<wrapping_sub_u64(ubcc, count), count>>
                      ELSE <<UNKNOWN_BIT_COUNT, UNKNOWN_BIT_COUNT>>
         IN <<Bitmap(self.storage, self.offset, lhs_length, counts[1]),
              Bitmap(self.storage, self.offset + offset, rhs_length, counts[2])>>

\* Splitable::split_at: assert!(self.check_bound(offset)), then _split_at_unchecked
split_at(self, offset) ==
    IF check_bound(self, offset) THEN split_at_unchecked(self, offset) ELSE <<>>

\* The byte buffers and the lengths the constructors are called with.
Buffers ==
    {<<>>, <<13>>, <<254, 255>>, <<13, 0, 255, 160, 7, 255, 0, 1, 128>>,
     [i \in 1..(2^UsizeBits \div 8) |-> 0]}

ByteLengths == {0, 8, 9, 72, 73, USIZE_MAX}

BitLengths == {0, 8, 70}

\* The arguments slice and sliced are called with: in range, one past the range, and
\* sums above USIZE_MAX.
SliceArgs(self) ==
    {<<0, 0>>, <<1, 7>>, <<2, 30>>, <<1, 60>>, <<9, 63>>, <<USIZE_MAX, 1>>, <<1, USIZE_MAX>>,
     <<0, self.length>>, <<self.length, 0>>, <<self.length, 1>>,
     <<1, SetMax({self.length, 1}) - 1>>}

SplitOffsets(self) ==
    {0, 3, self.length \div 2, SetMax({self.length, 3}) - 3, self.length, self.length + 1}

Call(op, args, returned, parts, panicked) ==
    [op |-> op, args |-> args, ret |-> returned, parts |-> parts, panicked |-> panicked,
     calls |-> bitmap_call.calls + 1]

driver_vars == <<plan_vars, bg_vars, out, pipe_seq_offsets, graph_vars, pc, phases, run_vars, ret>>

\* A live bitmap whose bits lie in its buffer: the calls below read no bit outside it.
callable ==
    /\ bitmap.tag = "Bitmap"
    /\ in_bytes(bitmap.storage, bitmap.offset, bitmap.length)
    /\ bitmap_call.calls < MaxCalls

TryNew ==
    /\ bitmap = NoBitmap
    /\ \E bytes \in Buffers, length \in ByteLengths :
           /\ bitmap' = try_new(bytes, length)
           /\ bitmap_call' = Call("try_new", <<Len(bytes), length>>, 0, <<>>, FALSE)
    /\ UNCHANGED <<overflow_checks, to_run, lib_vars, driver_vars>>

NewZeroed ==
    /\ bitmap = NoBitmap
    /\ \E length \in BitLengths :
           /\ bitmap' = new_zeroed(length)
           /\ bitmap_call' = Call("new_zeroed", <<length>>, 0, <<>>, FALSE)
    /\ UNCHANGED <<overflow_checks, to_run, lib_vars, driver_vars>>

NewWithValue ==
    /\ bitmap = NoBitmap
    /\ \E value \in BOOLEAN, length \in BitLengths :
           /\ bitmap' = new_with_value(value, length)
           /\ bitmap_call' = Call("new_with_value", <<IF value THEN 1 ELSE 0, length>>, 0, <<>>, FALSE)
    /\ UNCHANGED <<overflow_checks, to_run, lib_vars, driver_vars>>

Slice ==
    /\ callable
    /\ \E args \in SliceArgs(bitmap) :
           /\ bitmap' = slice(bitmap, args[1], args[2])
           /\ bitmap_call' = Call("slice", args, 0, <<>>, bitmap'.tag = "Panic")
    /\ UNCHANGED <<overflow_checks, to_run, lib_vars, driver_vars>>

Sliced ==
    /\ callable
    /\ \E args \in SliceArgs(bitmap) :
           /\ bitmap' = sliced(bitmap, args[1], args[2])
           /\ bitmap_call' = Call("sliced", args, 0, <<>>, bitmap'.tag = "Panic")
    /\ UNCHANGED <<overflow_checks, to_run, lib_vars, driver_vars>>

UnsetBits ==
    /\ callable
    /\ bitmap' = unset_bits(bitmap)[1]
    /\ bitmap_call' = Call("unset_bits", <<>>, unset_bits(bitmap)[2], <<>>, FALSE)
    /\ UNCHANGED <<overflow_checks, to_run, lib_vars, driver_vars>>

Take(op, taken) ==
    /\ callable
    /\ bitmap' = taken[1]
    /\ bitmap_call' = Call(op, <<>>, taken[2], <<>>, FALSE)
    /\ UNCHANGED <<overflow_checks, to_run, lib_vars, driver_vars>>

TakeLeadingZeros == Take("take_leading_zeros", take_leading(bitmap, 0))

TakeLeadingOnes == Take("take_leading_ones", take_leading(bitmap, 1))

TakeTrailingZeros == Take("take_trailing_zeros", take_trailing(bitmap, 0))

TakeTrailingOnes == Take("take_trailing_ones", take_trailing(bitmap, 1))

\* split_at; the caller goes on with either part.
SplitAt ==
    /\ callable
    /\ \E offset \in SplitOffsets(bitmap) :
           LET parts == split_at(bitmap, offset)
           IN /\ bitmap_call' = Call("split_at", <<offset>>, 0, parts, parts = <<>>)
              /\ IF parts = <<>> THEN bitmap' = Panicked ELSE bitmap' \in {parts[1], parts[2]}
    /\ UNCHANGED <<overflow_checks, to_run, lib_vars, driver_vars>>

BitmapInit ==
    /\ bitmap = NoBitmap
    /\ bitmap_call = NoCall
    /\ overflow_checks \in BOOLEAN
    /\ to_run = <<>>
    /\ lib_idle
    /\ phys_sm = <<>>
    /\ plan_lowered = <<>>
    /\ plan_root = 0
    /\ plan_pc = "none"
    /\ nodes = <<>>
    /\ pipes = <<>>
    /\ compute = <<>>
    /\ pc = "none"
    /\ phases = 0
    /\ sub_nodes = {}
    /\ sub_pipes = <<>>
    /\ physical_pipes = <<>>
    /\ num_send_ports_not_yet_ready = <<>>
    /\ ready = <<>>
    /\ node_refs = {}
    /\ recv_ports = <<>>
    /\ send_ports = <<>>
    /\ spawned = <<>>
    /\ join_handles = <<>>
    /\ awaited = 0
    /\ phase_ret = None
    /\ ret = None
    /\ subphase_tasks = <<>>
    /\ query_tasks = <<>>
    /\ out = <<>>
    /\ pipe_seq_offsets = <<>>

BitmapNext ==
    \/ TryNew
    \/ NewZeroed
    \/ NewWithValue
    \/ Slice
    \/ Sliced
    \/ UnsetBits
    \/ TakeLeadingZeros
    \/ TakeLeadingOnes
    \/ TakeTrailingZeros
    \/ TakeTrailingOnes
    \/ SplitAt

BitmapSpec == BitmapInit /\ [][BitmapNext]_vars

(* ------------------------------------------------------------------ *)
(* Properties of Bitmap                                                *)
(* ------------------------------------------------------------------ *)
\* C25: try_new(bytes, length) returns an error exactly when length > bytes.len() * 8;
\* otherwise the bitmap has offset 0, the given length, and an unset-bit cache that is
\* 0 when length = 0 and unknown otherwise.
C25_TryNewErrorsExactlyWhenTooLong ==
    bitmap_call.op = "try_new" =>
        LET bytes_len == bitmap_call.args[1]
            length == bitmap_call.args[2]
        IN /\ bitmap.tag = "Err" <=> length > bytes_len * 8
           /\ bitmap.tag # "Err" =>
                  /\ bitmap.tag = "Bitmap"
                  /\ bitmap.offset = 0
                  /\ bitmap.length = length
                  /\ Len(bitmap.storage) = bytes_len
                  /\ IF length = 0 THEN bitmap.unset_bit_count_cache = 0
                     ELSE bitmap.unset_bit_count_cache \div 2^(U64Bits - 1) = 1

\* try_new succeeded on a buffer of more than USIZE_MAX bits with a length above 0.
C25_Witness ==
    /\ bitmap_call.op = "try_new"
    /\ bitmap.tag = "Bitmap"
    /\ bitmap_call.args[1] * 8 > USIZE_MAX
    /\ bitmap.length > 0

\* The bit at position i of a bitmap.
bit_of(self, i) == get_bit(self.storage, self.offset + i)

slice_as_documented(offset, length) ==
    /\ bitmap_call'.panicked <=> offset + length > bitmap.length
    /\ ~bitmap_call'.panicked =>
           /\ bitmap'.tag = "Bitmap"
           /\ bitmap'.length = length
           /\ bitmap'.storage = bitmap.storage
           /\ \A i \in 0..(length - 1) : bit_of(bitmap', i) = bit_of(bitmap, offset + i)
    /\ (offset = 0 /\ length = bitmap.length) => bitmap' = bitmap

\* C24: slice(offset, length) panics exactly when offset + length > len(); otherwise the
\* bitmap has len() = length, its i-th bit is bit offset + i of the bitmap before, the
\* bytes are unchanged; slice(0, len()) changes nothing.
C24_SlicePanicsExactlyWhenOutOfRange ==
    [][bitmap_call'.op = "slice" =>
           slice_as_documented(bitmap_call'.args[1], bitmap_call'.args[2])]_vars

\* The same in a build that panics on usize overflow.
C24_SliceWithOverflowChecks ==
    [][(bitmap_call'.op = "slice" /\ overflow_checks) =>
           slice_as_documented(bitmap_call'.args[1], bitmap_call'.args[2])]_vars

\* The cache of a bitmap is unknown or the number of zero bits in [offset, offset + length).
coherent(self) ==
    self.tag = "Bitmap" =>
        /\ self.offset + self.length <= Len(self.storage) * 8
        /\ self.unset_bit_count_cache \div 2^(U64Bits - 1) = 0 =>
               self.unset_bit_count_cache =
                   Cardinality({i \in 0..(self.length - 1) : bit_of(self, i) = 0})

cache_coherence ==
    /\ coherent(bitmap)
    /\ \A i \in 1..Len(bitmap_call.parts) : coherent(bitmap_call.parts[i])
    /\ bitmap_call.op = "unset_bits" =>
           /\ bitmap_call.ret = Cardinality({i \in 0..(bitmap.length - 1) : bit_of(bitmap, i) = 0})
           /\ bitmap_call.ret <= len(bitmap)
           /\ set_bits(bitmap) + bitmap_call.ret = len(bitmap)

\* C23: after any sequence of slice, sliced, take_leading_zeros/ones, take_trailing_zeros/ones,
\* split_at and unset_bits calls on a bitmap built by try_new, new_zeroed or new_with_value,
\* the unset-bit cache is unknown or equals the number of zero bits in [offset, offset + length);
\* unset_bits() returns that number, it is at most len(), and set_bits() + unset_bits() = len().
C23_UnsetBitCacheCoherent == cache_coherence

\* The same in a build that panics on usize overflow.
C23_CoherentWithOverflowChecks == overflow_checks => cache_coherence

(* ------------------------------------------------------------------ *)
(* execute.rs: the selection functions on graphs in any port state     *)
(* ------------------------------------------------------------------ *)
PortStates == {"Blocked", "Ready", "Done"}

\* The sequences of at most two distinct nodes: the blockers expand_ready_subgraph is given.
Starts(ns) ==
    {<<>>} \cup {<<n>> : n \in DOMAIN ns}
           \cup UNION {{<<n, m>> : m \in DOMAIN ns \ {n}} : n \in DOMAIN ns}

\* A graph of Graphs whose pipes are in any send and receive state.
SelectInit ==
    \E g \in Range(Graphs) :
    \E send \in [DOMAIN g.pipes -> PortStates], recv \in [DOMAIN g.pipes -> PortStates] :
        /\ nodes = g.nodes
        /\ pipes = [p \in DOMAIN g.pipes |->
                       [g.pipes[p] EXCEPT !.send_state = send[p], !.recv_state = recv[p]]]
        /\ compute = [n \in 1..Len(g.nodes) |-> InitCompute(g.nodes[n].kind, 0)]
        /\ pc = "select"
        /\ phases = 0
        /\ sub_nodes = {}
        /\ sub_pipes = <<>>
        /\ physical_pipes = <<>>
        /\ num_send_ports_not_yet_ready = <<>>
        /\ ready = <<>>
        /\ node_refs = {}
        /\ recv_ports = <<>>
        /\ send_ports = <<>>
        /\ spawned = <<>>
        /\ join_handles = <<>>
        /\ awaited = 0
        /\ phase_ret = None
        /\ ret = None
        /\ subphase_tasks = <<>>
        /\ query_tasks = <<>>
        /\ out = <<>>
        /\ pipe_seq_offsets = <<>>
        /\ phys_sm = <<>>
        /\ plan_root = 0
        /\ plan_lowered = <<>>
        /\ plan_pc = "none"
        /\ bitmap = NoBitmap
        /\ bitmap_call = NoCall
        /\ overflow_checks = TRUE
        /\ to_run = <<>>
        /\ lib_idle

select_unchanged ==
    UNCHANGED <<bitmap, bitmap_call, overflow_checks, lib_vars, plan_vars, bg_vars, out, pipe_seq_offsets,
                graph_vars, phases, physical_pipes, num_send_ports_not_yet_ready, ready,
                node_refs, recv_ports, send_ports, spawned, join_handles, awaited, phase_ret, ret>>

FindRunnablePipelineBlockers ==
    /\ pc = "select"
    /\ to_run' = find_runnable_pipeline_blockers(nodes, pipes)
    /\ pc' = "blockers"
    /\ UNCHANGED <<sub_nodes, sub_pipes>>
    /\ select_unchanged

ExpandReadySubgraph ==
    /\ pc = "select"
    /\ \E start \in Starts(nodes) :
           LET g == expand_ready_subgraph(nodes, pipes, start)
           IN /\ to_run' = start
              /\ sub_nodes' = g.nodes
              /\ sub_pipes' = g.pipes
    /\ pc' = "expanded"
    /\ select_unchanged

FindRunnableSubgraphOnly ==
    /\ pc = "select"
    /\ to_run' = select_blockers(nodes, pipes)
    /\ LET g == find_runnable_subgraph(nodes, pipes)
       IN /\ sub_nodes' = g.nodes
          /\ sub_pipes' = g.pipes
    /\ pc' = "selected"
    /\ select_unchanged

SelectNext == FindRunnablePipelineBlockers \/ ExpandReadySubgraph \/ FindRunnableSubgraphOnly

SelectSpec == SelectInit /\ [][SelectNext]_vars

(* ------------------------------------------------------------------ *)
(* Properties of the selection functions                               *)
(* ------------------------------------------------------------------ *)
ready_on_both_sides(p) == pipes[p].send_state = "Ready" /\ pipes[p].recv_state = "Ready"

output_pipes(n) == {nodes[n].outputs[o] : o \in 1..Len(nodes[n].outputs)}

input_pipes(n) == {nodes[n].inputs[i] : i \in 1..Len(nodes[n].inputs)}

is_runnable_blocker(n) ==
    /\ \A p \in output_pipes(n) : pipes[p].send_state = "Blocked"
    /\ \E p \in input_pipes(n) : ready_on_both_sides(p)

no_duplicates(s) == Cardinality(Range(s)) = Len(s)

\* C26: find_runnable_pipeline_blockers returns exactly the nodes all of whose output pipes
\* have send_state Blocked and that have an input pipe Ready on both sides, each at most once;
\* a node without outputs qualifies on its inputs alone, a node without inputs is never returned.
C26_BlockersExactlyBlockedOutputsReadyInput ==
    pc = "blockers" =>
        /\ Range(to_run) = {n \in DOMAIN nodes : is_runnable_blocker(n)}
        /\ no_duplicates(to_run)
        /\ \A n \in DOMAIN nodes :
               /\ (nodes[n].outputs = <<>> /\ \E p \in input_pipes(n) : ready_on_both_sides(p))
                      => n \in Range(to_run)
               /\ nodes[n].inputs = <<>> => n \notin Range(to_run)

\* Two blockers are returned, one of them without outputs, while a node with a ready input
\* and an output that is not Blocked is left out.
C26_Witness ==
    /\ pc = "blockers"
    /\ Len(to_run) = 2
    /\ \E n \in Range(to_run) : nodes[n].outputs = <<>>
    /\ \E n \in Range(to_run) : nodes[n].outputs # <<>>
    /\ \E n \in DOMAIN nodes \ Range(to_run) :
           /\ \E p \in input_pipes(n) : ready_on_both_sides(p)
           /\ \E p \in output_pipes(n) : pipes[p].send_state # "Blocked"

\* A set of nodes that has the sender of every input pipe Ready on both sides of its nodes.
closed_under_ready_inputs(S) ==
    \A n \in S : \A p \in input_pipes(n) : ready_on_both_sides(p) => pipes[p].sender \in S

\* C27: expand_ready_subgraph returns the least set of nodes that contains the given nodes
\* and is closed under adding the sender of an input pipe Ready on both sides; the pipe list
\* is the set of the Ready/Ready input pipes of those nodes, each once; every returned pipe
\* has its sender and its receiver in the node set.
C27_ExpandReturnsLeastClosedSet ==
    pc = "expanded" =>
        /\ Range(to_run) \subseteq sub_nodes
        /\ closed_under_ready_inputs(sub_nodes)
        /\ \A S \in SUBSET (DOMAIN nodes) :
               (Range(to_run) \subseteq S /\ closed_under_ready_inputs(S)) => sub_nodes \subseteq S
        /\ Range(sub_pipes) =
               {p \in DOMAIN pipes : ready_on_both_sides(p) /\ \E n \in sub_nodes : p \in input_pipes(n)}
        /\ no_duplicates(sub_pipes)
        /\ \A p \in Range(sub_pipes) :
               pipes[p].sender \in sub_nodes /\ pipes[p].receiver \in sub_nodes

\* The expansion went two pipes back from the one node it was given.
C27_Witness ==
    /\ pc = "expanded"
    /\ Len(to_run) = 1
    /\ Cardinality(sub_nodes) = 3
    /\ Len(sub_pipes) = 2
    /\ \E p \in DOMAIN pipes : p \notin Range(sub_pipes)

expensive_blockers ==
    {n \in DOMAIN nodes : is_runnable_blocker(n) /\ nodes[n].kind = "Sort"}

ready_receivers(n) == Cardinality({p \in output_pipes(n) : pipes[p].recv_state = "Ready"})

\* C28: when a memory intensive runnable blocker exists, find_runnable_subgraph selects
\* exactly one of them, one with a maximal number of output pipes whose recv_state is Ready.
C28_OneExpensiveBlockerWithMostReadyOutputs ==
    (pc = "selected" /\ expensive_blockers # {}) =>
        /\ Cardinality(Range(to_run) \cap expensive_blockers) = 1
        /\ Cardinality(sub_nodes \cap expensive_blockers) = 1
        /\ \A n \in Range(to_run) \cap expensive_blockers :
               \A m \in expensive_blockers : ready_receivers(m) <= ready_receivers(n)

\* Two memory intensive blockers can run, one with more outputs ready to receive; the
\* first of them in node order is the one not selected.
C28_Witness ==
    /\ pc = "selected"
    /\ Cardinality(expensive_blockers) = 2
    /\ \E n \in expensive_blockers : \E m \in expensive_blockers :
           /\ n < m
           /\ ready_receivers(n) < ready_receivers(m)
           /\ m \in sub_nodes
           /\ n \notin sub_nodes

(* ------------------------------------------------------------------ *)
(* execute.rs: one phase up to the end of the spawn loop               *)
(* ------------------------------------------------------------------ *)
\* Graphs with a node that feeds two pipes.
FanOutGraphs ==
    {\* Source -> Multiplexer -> (Map, Map) -> OrderedUnion -> Sink
     [nodes |-> <<GraphNode("Source", <<>>, <<1>>), GraphNode("Multiplexer", <<1>>, <<2, 3>>),
                  GraphNode("Map", <<2>>, <<4>>), GraphNode("Map", <<3>>, <<5>>),
                  GraphNode("Union", <<4, 5>>, <<6>>), GraphNode("Sink", <<6>>, <<>>)>>,
      pipes |-> <<LogicalPipe(1, 0, 2, 0), LogicalPipe(2, 0, 3, 0), LogicalPipe(2, 1, 4, 0),
                  LogicalPipe(3, 0, 5, 0), LogicalPipe(4, 0, 5, 1), LogicalPipe(5, 0, 6, 0)>>],
     \* Source -> Multiplexer -> (Sink, Sink)
     [nodes |-> <<GraphNode("Source", <<>>, <<1>>), GraphNode("Multiplexer", <<1>>, <<2, 3>>),
                  GraphNode("Sink", <<2>>, <<>>), GraphNode("Sink", <<3>>, <<>>)>>,
      pipes |-> <<LogicalPipe(1, 0, 2, 0), LogicalPipe(2, 0, 3, 0), LogicalPipe(2, 1, 4, 0)>>]}

\* The states of the two ends of a pipe the phase is started in.
PipeStates ==
    {<<"Blocked", "Blocked">>, <<"Ready", "Ready">>, <<"Ready", "Blocked">>, <<"Blocked", "Ready">>,
     <<"Done", "Done">>}

\* execute_graph about to look for a subgraph, on a graph whose operators left the pipes
\* in any of PipeStates.
SpawnLoopInit ==
    \E g \in FanOutGraphs \cup {Graphs[5]} : \E states \in [DOMAIN g.pipes -> PipeStates] :
        /\ nodes = g.nodes
        /\ pipes = [p \in DOMAIN g.pipes |->
                       [g.pipes[p] EXCEPT !.send_state = states[p][1], !.recv_state = states[p][2]]]
        /\ compute = [n \in 1..Len(g.nodes) |-> InitCompute(g.nodes[n].kind, 0)]
        /\ pc = "find"
        /\ phases = 0
        /\ sub_nodes = {}
        /\ sub_pipes = <<>>
        /\ physical_pipes = <<>>
        /\ num_send_ports_not_yet_ready = <<>>
        /\ ready = <<>>
        /\ node_refs = {}
        /\ recv_ports = <<>>
        /\ send_ports = <<>>
        /\ spawned = <<>>
        /\ join_handles = <<>>
        /\ awaited = 0
        /\ phase_ret = None
        /\ ret = None
        /\ subphase_tasks = <<>>
        /\ query_tasks = <<>>
        /\ out = <<>>
        /\ pipe_seq_offsets = <<>>
        /\ phys_sm = <<>>
        /\ plan_root = 0
        /\ plan_lowered = <<>>
        /\ plan_pc = "none"
        /\ unit_idle

SpawnLoopNext ==
    \/ FindRunnableSubgraph
    \/ ConstructPhysicalPipes
    \/ SpawnNode
    \/ SpawnPipes

SpawnLoopSpec == SpawnLoopInit /\ [][SpawnLoopNext]_vars

(* ------------------------------------------------------------------ *)
(* Properties of run_subgraph: physical pipes and the spawn loop       *)
(* ------------------------------------------------------------------ *)
\* The pipes of the node at slot i of its inputs (outputs) that got a port in this step.
got_recv_port(p) ==
    p \in DOMAIN physical_pipes' /\ physical_pipes'[p].recv_port
        /\ ~(p \in DOMAIN physical_pipes /\ physical_pipes[p].recv_port)

got_send_port(p) ==
    p \in DOMAIN physical_pipes' /\ physical_pipes'[p].send_port
        /\ ~(p \in DOMAIN physical_pipes /\ physical_pipes[p].send_port)

\* C29: in each phase run_subgraph makes one fresh physical pipe per logical pipe of the
\* selected subgraph and none for another pipe; a node spawned in the phase gets a port in
\* input slot i (output slot j) exactly when its i-th input pipe (j-th output pipe) is a
\* pipe of the subgraph.
C29_OnePhysicalPipePerSubgraphPipe ==
    /\ [](in_phase => DOMAIN physical_pipes = Range(sub_pipes))
    /\ [][(pc = "run" /\ pc' = "spawn") =>
              \A p \in DOMAIN physical_pipes' :
                  /\ ~physical_pipes'[p].recv_port
                  /\ ~physical_pipes'[p].send_port
                  /\ ~physical_pipes'[p].spawned
                  /\ physical_pipes'[p].data = {}]_vars
    /\ [][(pc = "spawn" /\ spawned' # spawned) =>
              LET node == nodes[Last(spawned')]
              IN /\ \A i \in 1..Len(node.inputs) :
                        got_recv_port(node.inputs[i]) <=> node.inputs[i] \in Range(sub_pipes)
                 /\ \A o \in 1..Len(node.outputs) :
                        got_send_port(node.outputs[o]) <=> node.outputs[o] \in Range(sub_pipes)
                 /\ \A p \in DOMAIN pipes :
                        /\ got_recv_port(p) => p \in Range(node.inputs)
                        /\ got_send_port(p) => p \in Range(node.outputs)]_vars

\* A node was spawned with a port for its input, which is a pipe of the subgraph, and
\* without a port for its output, which is not.
C29_Witness ==
    /\ in_phase
    /\ spawned # <<>>
    /\ LET node == nodes[Last(spawned)]
       IN /\ \E i \in 1..Len(node.inputs) :
                 node.inputs[i] \in DOMAIN physical_pipes /\ physical_pipes[node.inputs[i]].recv_port
          /\ \E o \in 1..Len(node.outputs) : node.outputs[o] \notin DOMAIN physical_pipes
    /\ \E p \in DOMAIN pipes : p \notin Range(sub_pipes)

\* The in-subgraph outputs of n whose receiver is not spawned yet.
outputs_not_yet_ready(n) ==
    {o \in 1..Len(nodes[n].outputs) :
        /\ nodes[n].outputs[o] \in Range(sub_pipes)
        /\ pipes[nodes[n].outputs[o]].receiver \notin Range(spawned)}

\* C30: in each phase the spawn loop calls spawn once on every node of the subgraph and on
\* no other node; a node is pushed on `ready` once, when its count of in-subgraph outputs
\* whose receiver is not spawned yet reaches zero; the loop ends with every counter at zero.
C30_SpawnLoopSpawnsEachNodeOnce ==
    /\ [](pc \in {"spawn", "await", "scope_exit"} =>
              /\ Range(spawned) \subseteq sub_nodes
              /\ Cardinality(Range(spawned)) = Len(spawned)
              /\ Cardinality(Range(ready)) = Len(ready)
              /\ Range(ready) \cap Range(spawned) = {}
              /\ DOMAIN num_send_ports_not_yet_ready = sub_nodes
              /\ \A n \in sub_nodes :
                     /\ num_send_ports_not_yet_ready[n] = Cardinality(outputs_not_yet_ready(n))
                     /\ n \in Range(ready) \cup Range(spawned) <=> num_send_ports_not_yet_ready[n] = 0)
    /\ []((pc \in {"await", "scope_exit"} \/ (pc = "spawn" /\ ready = <<>>)) =>
              /\ Range(spawned) = sub_nodes
              /\ \A n \in sub_nodes : num_send_ports_not_yet_ready[n] = 0)

\* A node with two outputs in the subgraph waits with a count of 1: one of its receivers
\* is spawned, the other is not.
C30_Witness ==
    /\ pc = "spawn"
    /\ \E n \in sub_nodes :
           /\ num_send_ports_not_yet_ready[n] = 1
           /\ Cardinality({o \in 1..Len(nodes[n].outputs) : nodes[n].outputs[o] \in Range(sub_pipes)}) = 2
           /\ n \notin Range(ready) \cup Range(spawned)

(* ------------------------------------------------------------------ *)
(* Properties of the driver loop, continued                            *)
(* ------------------------------------------------------------------ *)
\* C31: within one execute_graph call the physical pipes of one logical pipe share one
\* sequence-offset cell over the phases: it is made at the first instantiation of the pipe
\* and never reset or replaced, and two logical pipes never share a cell.
C31_OneSequenceOffsetCellPerPipe ==
    /\ [](in_phase =>
              \A p \in DOMAIN physical_pipes :
                  /\ physical_pipes[p].seq_offset = p
                  /\ p \in DOMAIN pipe_seq_offsets)
    /\ [][\A p \in DOMAIN pipe_seq_offsets :
              /\ p \in DOMAIN pipe_seq_offsets'
              /\ pipe_seq_offsets'[p] >= pipe_seq_offsets[p]]_vars
    /\ [][(pc = "run" /\ pc' = "spawn") =>
              /\ \A p \in DOMAIN pipe_seq_offsets : pipe_seq_offsets'[p] = pipe_seq_offsets[p]
              /\ \A p \in DOMAIN pipe_seq_offsets' \ DOMAIN pipe_seq_offsets :
                     p \in Range(sub_pipes) /\ pipe_seq_offsets'[p] = 0]_vars

\* A pipe is instantiated again in a later phase and its cell still holds the count of
\* the morsels sent through it before.
C31_Witness ==
    /\ pc = "spawn"
    /\ phases >= 2
    /\ spawned = <<>>
    /\ \E p \in DOMAIN physical_pipes : pipe_seq_offsets[p] > 0

\* The nodes of the subgraph without an output pipe in the subgraph.
without_output_in_subgraph ==
    {n \in sub_nodes : \A p \in output_pipes(n) : p \notin Range(sub_pipes)}

\* C32: in every selected subgraph the nodes that are runnable pipeline blockers are the
\* blockers find_runnable_subgraph chose, and they are the nodes without an output pipe in
\* the subgraph, the nodes on `ready` when the spawn loop starts; the expansion adds no
\* runnable blocker, so a memory intensive blocker that was not chosen is not spawned.
C32_BlockersOfSubgraphAreTheChosenOnes ==
    pc \in {"run", "spawn", "await"} =>
        /\ {n \in sub_nodes : is_runnable_blocker(n)} = Range(select_blockers(nodes, pipes))
        /\ {n \in sub_nodes : is_runnable_blocker(n)} = without_output_in_subgraph
        /\ (pc = "spawn" /\ spawned = <<>>) => Range(ready) = without_output_in_subgraph
        /\ (pc # "run" /\ spawned # <<>>) => is_runnable_blocker(spawned[1])
        /\ \A n \in expensive_blockers :
               n \notin Range(select_blockers(nodes, pipes)) =>
                   /\ n \notin sub_nodes
                   /\ pc # "run" => n \notin Range(spawned)

\* Two memory intensive blockers are runnable, the phase is spawned with one of them and
\* with a node the expansion added.
C32_Witness ==
    /\ pc = "await"
    /\ Cardinality(expensive_blockers) = 2
    /\ Cardinality(expensive_blockers \cap Range(spawned)) = 1
    /\ \E n \in Range(spawned) : ~is_runnable_blocker(n)

some_runnable_blocker == \E n \in DOMAIN nodes : is_runnable_blocker(n)

\* C33: the loop of execute_graph breaks exactly in the iteration in which no node is a
\* runnable pipeline blocker: with a runnable blocker, memory intensive or not, the subgraph
\* is not empty and a phase is run; with every pipe Done on both sides no node is runnable
\* and the loop is left without a phase.
C33_LoopExitsExactlyWithoutRunnableBlocker ==
    /\ [](all_pipes_done => ~some_runnable_blocker)
    /\ [][pc = "find" =>
              /\ pc' \in {"ensure_done", "run"}
              /\ pc' = "ensure_done" <=> ~some_runnable_blocker
              /\ some_runnable_blocker =>
                     /\ sub_nodes' # {}
                     /\ \E n \in sub_nodes' : is_runnable_blocker(n)
                     /\ phases' = phases + 1
              /\ ~some_runnable_blocker => sub_nodes' = {} /\ phases' = phases]_vars
    /\ [][pc' = "ensure_done" => pc \in {"find", "ensure_done"}]_vars

\* A phase is about to run although every runnable blocker is memory intensive.
C33_Witness ==
    /\ pc = "run"
    /\ some_runnable_blocker
    /\ \A n \in DOMAIN nodes : is_runnable_blocker(n) => nodes[n].kind = "Sort"

C33_ExitWitness == pc = "ensure_done" /\ phases >= 2 /\ all_pipes_done /\ sub_nodes = {}

\* C34: find_runnable_subgraph and run_subgraph leave the send_state and recv_state of
\* every pipe as they are; in the driver the states change only in update_all_states, so
\* the selection reads the states of the refresh just before it.
C34_PortStatesChangeOnlyInUpdateAllStates ==
    /\ [][pipes' # pipes => pc = "update"]_vars
    /\ [][(pc \in {"find", "run", "spawn", "await", "scope_exit"}) => (pipes' = pipes)]_vars
    /\ [][pc' = "find" => (pipes' = pipes)]_vars

\* A phase that moved morsels has been run and awaited, and the ports still show the
\* states of the refresh before it.
C34_Witness ==
    /\ pc = "scope_exit"
    /\ phases >= 2
    /\ \E p \in DOMAIN pipes : pipes[p].send_state = "Ready" /\ pipes[p].recv_state = "Ready"
    /\ pipes # update_all_states(nodes, pipes, compute).pipes

\* The ports of multiplexer m that the input slots of the built plan refer to, one entry
\* per referring slot.
references_to(m) ==
    {c \in UNION {{<<n, k>> : k \in 1..Len(refs(phys_sm, n))} : n \in DOMAIN phys_sm} :
        refs(phys_sm, c[1])[c[2]].node = m}

ports_in_order(stream) ==
    LET k == Cardinality(consumers(plan_lowered, plan_root, stream))
    IN k > 1 =>
        \E m \in DOMAIN phys_sm \ DOMAIN plan_lowered :
            /\ multiplexers_of(phys_sm, stream) = {m}
            /\ phys_sm[m].inputs = <<stream>>
            /\ Cardinality(references_to(m)) = k
            /\ {refs(phys_sm, c[1])[c[2]].port : c \in references_to(m)} = 0..(k - 1)

MultiplexerPortsZeroToKExceptSinkMultiple ==
    plan_pc = "built" =>
        \A n \in DOMAIN plan_lowered :
            ~shared_by_sink_multiple(PhysStream_first(n)) => ports_in_order(PhysStream_first(n))

\* A stream counted three times without a SinkMultiple has the three ports in use.
MultiplexerPortsWitness ==
    /\ plan_pc = "built"
    /\ \E n \in DOMAIN plan_lowered :
           /\ Cardinality(consumers(plan_lowered, plan_root, PhysStream_first(n))) >= 3
           /\ ~shared_by_sink_multiple(PhysStream_first(n))

\* The length of the longest run of `value` bits at the front and at the back of a bitmap.
run_at_front(self, value) ==
    SetMax({k \in 0..self.length : \A i \in 0..(k - 1) : bit_of(self, i) = value})

run_at_back(self, value) ==
    SetMax({k \in 0..self.length : \A i \in (self.length - k)..(self.length - 1) : bit_of(self, i) = value})

\* What a take_* call has to do to the bitmap: n bits of `value` leave at one end.
takes_run(value, front) ==
    LET n == bitmap_call'.ret
    IN /\ bitmap'.tag = "Bitmap"
       /\ ~bitmap_call'.panicked
       /\ n = IF front THEN run_at_front(bitmap, value) ELSE run_at_back(bitmap, value)
       /\ len(bitmap') = len(bitmap) - n
       /\ \A i \in 0..(len(bitmap') - 1) :
              bit_of(bitmap', i) = bit_of(bitmap, IF front THEN i + n ELSE i)
       /\ \/ len(bitmap') = 0
          \/ bit_of(bitmap', IF front THEN 0 ELSE len(bitmap') - 1) = 1 - value

takes_as_documented ==
    /\ bitmap_call'.op = "take_leading_zeros" => takes_run(0, TRUE)
    /\ bitmap_call'.op = "take_leading_ones" => takes_run(1, TRUE)
    /\ bitmap_call'.op = "take_trailing_zeros" => takes_run(0, FALSE)
    /\ bitmap_call'.op = "take_trailing_ones" => takes_run(1, FALSE)

TakeRemovesMaximalRunFromAnyBitmap == [][takes_as_documented]_vars

zeros(self) == Cardinality({i \in 0..(self.length - 1) : bit_of(self, i) = 0})

cache_known(self) == self.unset_bit_count_cache \div 2^(U64Bits - 1) = 0

\* What split_at(offset) has to return for the bitmap it is called on.
splits_as_documented(offset) ==
    LET parts == bitmap_call'.parts
    IN /\ ~bitmap_call'.panicked
       /\ Len(parts) = 2
       /\ parts[1].tag = "Bitmap" /\ parts[2].tag = "Bitmap"
       /\ len(parts[1]) = offset
       /\ len(parts[2]) = len(bitmap) - offset
       /\ \A i \in 0..(len(bitmap) - 1) :
              bit_of(bitmap, i) = IF i < offset THEN bit_of(parts[1], i) ELSE bit_of(parts[2], i - offset)
       /\ \A k \in 1..2 : cache_known(parts[k]) => parts[k].unset_bit_count_cache = zeros(parts[k])
       /\ (cache_known(parts[1]) /\ cache_known(parts[2])) =>
              parts[1].unset_bit_count_cache + parts[2].unset_bit_count_cache = zeros(bitmap)

SplitAtKeepsBitsAndCountsOfAnyBitmap ==
    [][(bitmap_call'.op = "split_at" /\ bitmap_call'.args[1] <= len(bitmap)) =>
           splits_as_documented(bitmap_call'.args[1])]_vars

SplitDropsCountsWitness ==
    /\ bitmap_call.op = "split_at"
    /\ Len(bitmap_call.parts) = 2
    /\ len(bitmap_call.parts[1]) > SMALL_PORTION
    /\ len(bitmap_call.parts[2]) > SMALL_PORTION
    /\ ~cache_known(bitmap_call.parts[1]) /\ ~cache_known(bitmap_call.parts[2])

(* ------------------------------------------------------------------ *)
(* polars-core chunked_array/mod.rs: first_non_null, last_non_null     *)
(* ------------------------------------------------------------------ *)
MaxChunks == 3

MaxChunkLen == 2

\* A chunk as far as nulls go: its length and its validity, <<>> for None and <<bits>> for
\* Some(bitmap), a set bit for a value that is not null.
ArrayRef(length, validity) == [length |-> length, validity |-> validity]

ArrayRefs ==
    UNION {{ArrayRef(n, <<b>>) : b \in [1..n -> {0, 1}]} \cup {ArrayRef(n, <<>>)} : n \in 0..MaxChunkLen}

\* The places <<chunk, index in chunk>> of an array and the index of a place in the array.
places(chunks) == UNION {{<<c, i>> : i \in 0..(chunks[c].length - 1)} : c \in DOMAIN chunks}

index_of(chunks, place) == Cardinality({q \in places(chunks) : q[1] < place[1]}) + place[2]

array_is_valid(arr, i) == arr.validity = <<>> \/ arr.validity[1][i + 1] = 1

\* new_with_compute_len: the chunks with their total length and null count.
ChunkedArray(chunks, sorted) ==
    [tag |-> "ChunkedArray", chunks |-> chunks, flags |-> sorted,
     length |-> Cardinality(places(chunks)),
     null_count |-> Cardinality({q \in places(chunks) : ~array_is_valid(chunks[q[1]], q[2])})]

null_count(self) == self.null_count

is_sorted_any(self) == self.flags # "Not"

iter_validities(self) == [c \in DOMAIN self.chunks |-> self.chunks[c].validity]

\* self.get_unchecked(idx).is_some() for idx < len()
get_unchecked_is_some(self, idx) ==
    \E q \in places(self.chunks) :
        index_of(self.chunks, q) = idx /\ array_is_valid(self.chunks[q[1]], q[2])

\* The values arr.is_null_unchecked(i) can have: a chunk without validity has no null, and
\* with i >= arr.len() the bit is read outside the bitmap.
is_null_unchecked(arr, i) ==
    IF arr.validity = <<>> THEN {FALSE}
    ELSE IF i < arr.length THEN {arr.validity[1][i + 1] = 0}
    ELSE BOOLEAN

\* utils::first_non_null(validities): the scan is handed the validity of each chunk and
\* nothing else, so the first chunk without validity ends it at the offset reached.
utils_first_non_null(validities) ==
    LET stops == {c \in DOMAIN validities :
                     validities[c] = <<>> \/ \E i \in DOMAIN validities[c][1] : validities[c][1][i] = 1}
    IN IF stops = {} THEN <<>>
       ELSE LET c == CHOOSE x \in stops : \A y \in stops : x <= y
                offset == Cardinality(UNION {{<<d, i>> : i \in DOMAIN validities[d][1]} : d \in 1..(c - 1)})
            IN IF validities[c] = <<>> THEN <<offset>>
               ELSE <<offset + (CHOOSE i \in DOMAIN validities[c][1] :
                                   /\ validities[c][1][i] = 1
                                   /\ \A j \in 1..(i - 1) : validities[c][1][j] = 0) - 1>>

\* utils::last_non_null(validities, len): the same scan from the back.
utils_last_non_null(validities, length) ==
    LET stops == {c \in DOMAIN validities :
                     validities[c] = <<>> \/ \E i \in DOMAIN validities[c][1] : validities[c][1][i] = 1}
    IN IF length = 0 \/ stops = {} THEN <<>>
       ELSE LET c == SetMax(stops)
                offset == Cardinality(UNION {{<<d, i>> : i \in DOMAIN validities[d][1]} :
                                                d \in (c + 1)..Len(validities)})
            IN IF validities[c] = <<>> THEN <<length - offset - 1>>
               ELSE <<length - offset - Len(validities[c][1]) +
                      (CHOOSE i \in DOMAIN validities[c][1] :
                          /\ validities[c][1][i] = 1
                          /\ \A j \in (i + 1)..Len(validities[c][1]) : validities[c][1][j] = 0) - 1>>

\* first_non_null; `first_is_null` is what is_null_unchecked(0) of chunk 0 gave.
first_non_null(self, first_is_null) ==
    IF null_count(self) = len(self) THEN <<>>
    ELSE IF null_count(self) = 0 THEN <<0>>
    ELSE IF is_sorted_any(self) THEN <<IF first_is_null THEN null_count(self) ELSE 0>>
    ELSE utils_first_non_null(iter_validities(self))

last_non_null(self, first_is_null) ==
    IF null_count(self) = len(self) THEN <<>>
    ELSE IF null_count(self) = 0 THEN <<len(self) - 1>>
    ELSE IF is_sorted_any(self)
    THEN <<IF first_is_null THEN len(self) - 1 ELSE len(self) - null_count(self) - 1>>
    ELSE utils_last_non_null(iter_validities(self), len(self))

\* debug_assert!(self.get_unchecked(out).is_some(), "incorrect sorted flag")
incorrect_sorted_flag(self, debug_assertions, found) ==
    /\ debug_assertions
    /\ null_count(self) # len(self) /\ null_count(self) # 0 /\ is_sorted_any(self)
    /\ ~get_unchecked_is_some(self, found[1])

NonNullCall(op, found, panicked) ==
    [op |-> op, ret |-> IF panicked THEN <<>> ELSE found, panicked |-> panicked]

FirstNonNull ==
    /\ chunked_array.tag = "ChunkedArray"
    /\ \E first_is_null \in is_null_unchecked(chunked_array.chunks[1], 0), debug_assertions \in BOOLEAN :
           LET found == first_non_null(chunked_array, first_is_null)
           IN non_null_call' = NonNullCall("first_non_null", found,
                                           incorrect_sorted_flag(chunked_array, debug_assertions, found))
    /\ UNCHANGED <<chunked_array, traverser, traverser_call, bitmap, bitmap_call, overflow_checks, to_run,
                   driver_vars>>

LastNonNull ==
    /\ chunked_array.tag = "ChunkedArray"
    /\ \E first_is_null \in is_null_unchecked(chunked_array.chunks[1], 0), debug_assertions \in BOOLEAN :
           LET found == last_non_null(chunked_array, first_is_null)
           IN non_null_call' = NonNullCall("last_non_null", found,
                                           incorrect_sorted_flag(chunked_array, debug_assertions, found))
    /\ UNCHANGED <<chunked_array, traverser, traverser_call, bitmap, bitmap_call, overflow_checks, to_run,
                   driver_vars>>

\* The valid values of an array are all at its start or all at its end.
nulls_at_one_end(chunks) ==
    LET valid == {index_of(chunks, q) : q \in {r \in places(chunks) : array_is_valid(chunks[r[1]], r[2])}}
        n == Cardinality(places(chunks))
    IN valid = 0..(Cardinality(valid) - 1) \/ valid = (n - Cardinality(valid))..(n - 1)

\* The driver, the plan and the other units at rest.
driver_idle ==
    /\ phys_sm = <<>> /\ plan_lowered = <<>> /\ plan_root = 0 /\ plan_pc = "none"
    /\ nodes = <<>> /\ pipes = <<>> /\ compute = <<>>
    /\ pc = "none" /\ phases = 0
    /\ sub_nodes = {} /\ sub_pipes = <<>> /\ physical_pipes = <<>>
    /\ num_send_ports_not_yet_ready = <<>> /\ ready = <<>> /\ node_refs = {}
    /\ recv_ports = <<>> /\ send_ports = <<>> /\ spawned = <<>> /\ join_handles = <<>>
    /\ awaited = 0 /\ phase_ret = None /\ ret = None
    /\ subphase_tasks = <<>> /\ query_tasks = <<>> /\ out = <<>> /\ pipe_seq_offsets = <<>>

\* A ChunkedArray of at least one chunk, empty chunks included (drop_nulls leaves a chunk
\* of nulls empty, new_with_dims takes any chunks), whose sorted flag, if set, is truthful.
ChunkedInit ==
    /\ \E k \in 1..MaxChunks : \E chunks \in [1..k -> ArrayRefs] :
       \E sorted \in {"Not", "Ascending", "Descending"} :
           /\ sorted # "Not" => nulls_at_one_end(chunks)
           /\ chunked_array = ChunkedArray(chunks, sorted)
    /\ non_null_call = NoLibCall
    /\ traverser = NoTraverser
    /\ traverser_call = NoLibCall
    /\ bitmap = NoBitmap /\ bitmap_call = NoCall /\ overflow_checks = TRUE /\ to_run = <<>>
    /\ driver_idle

ChunkedNext == FirstNonNull \/ LastNonNull

ChunkedSpec == ChunkedInit /\ [][ChunkedNext]_vars

(* ------------------------------------------------------------------ *)
(* Properties of first_non_null and last_non_null                      *)
(* ------------------------------------------------------------------ *)
non_null_indices ==
    {i \in 0..(chunked_array.length - 1) : get_unchecked_is_some(chunked_array, i)}

non_null_as_documented ==
    /\ non_null_call.op = "first_non_null" =>
           /\ ~non_null_call.panicked
           /\ non_null_call.ret =
                  IF non_null_indices = {} THEN <<>>
                  ELSE <<CHOOSE i \in non_null_indices : \A j \in non_null_indices : i <= j>>
    /\ non_null_call.op = "last_non_null" =>
           /\ ~non_null_call.panicked
           /\ non_null_call.ret = IF non_null_indices = {} THEN <<>> ELSE <<SetMax(non_null_indices)>>

\* C38: first_non_null returns the smallest index of a value that is not null, last_non_null
\* the largest, and both None exactly when every value is null, on the path without nulls,
\* the path of the sorted flag and the validity scan, for arrays of several chunks.
C38_FirstAndLastNonNull == non_null_as_documented

\* The same for arrays none of whose chunks is empty.
NonNullWithoutEmptyChunk ==
    (\A c \in DOMAIN chunked_array.chunks : chunked_array.chunks[c].length > 0) => non_null_as_documented

\* The same for arrays whose first chunk holds a value and whose chunks without validity
\* are not empty.
NonNullWithSoundChunks ==
    (/\ chunked_array.chunks[1].length > 0
     /\ \A c \in DOMAIN chunked_array.chunks :
            chunked_array.chunks[c].validity = <<>> => chunked_array.chunks[c].length > 0)
        => non_null_as_documented

(* ------------------------------------------------------------------ *)
(* polars-python lazyframe/visit.rs: NodeTraverser                     *)
(* ------------------------------------------------------------------ *)
MaxArenaLen == 4

\* A NodeTraverser as far as expressions go: expr_arena is the length of the arena behind
\* the mutex (its nodes are 0 .. length - 1), poisoned whether a call panicked while it held
\* the lock, expr_mapping <<>> for None and <<mapping>> for Some(mapping).
NodeTraverser(expr_arena, poisoned, expr_mapping) ==
    [tag |-> "NodeTraverser", expr_arena |-> expr_arena, poisoned |-> poisoned,
     expr_mapping |-> expr_mapping]

\* NodeTraverser::new
NodeTraverser_new(expr_arena) == NodeTraverser(expr_arena, FALSE, <<>>)

\* The mappings set_expr_mapping is called with: of every length, in order and reversed.
Mappings ==
    UNION {{[i \in 1..n |-> i - 1], [i \in 1..n |-> n - i]} : n \in 0..MaxArenaLen}

TraverserCall(op, arg, outcome, returned) ==
    [op |-> op, arg |-> arg, outcome |-> outcome, ret |-> returned]

traverser_unchanged ==
    UNCHANGED <<chunked_array, non_null_call, bitmap, bitmap_call, overflow_checks, to_run, driver_vars>>

\* self.expr_arena.lock().unwrap() when an earlier call panicked under the lock
LockPanics(op, arg) ==
    /\ traverser.poisoned
    /\ traverser' = traverser
    /\ traverser_call' = TraverserCall(op, arg, "panic_poisoned", 0)

SetExprMapping ==
    /\ traverser.tag = "NodeTraverser"
    /\ \E mapping \in Mappings :
           \/ LockPanics("set_expr_mapping", mapping)
           \/ /\ ~traverser.poisoned
              /\ IF Len(mapping) # traverser.expr_arena
                 THEN /\ traverser' = traverser
                      /\ traverser_call' = TraverserCall("set_expr_mapping", mapping, "err", 0)
                 ELSE /\ traverser' = [traverser EXCEPT !.expr_mapping = <<mapping>>]
                      /\ traverser_call' = TraverserCall("set_expr_mapping", mapping, "ok", 0)
    /\ traverser_unchanged

UnsetExprMapping ==
    /\ traverser.tag = "NodeTraverser"
    /\ traverser' = [traverser EXCEPT !.expr_mapping = <<>>]
    /\ traverser_call' = TraverserCall("unset_expr_mapping", <<>>, "ok", 0)
    /\ traverser_unchanged

\* add_expressions: the conversion of the expressions pushes `added` nodes to the arena,
\* and fails or not; the nodes pushed before a failure stay.
AddExpressions ==
    /\ traverser.tag = "NodeTraverser"
    /\ \/ LockPanics("add_expressions", <<>>)
       \/ /\ ~traverser.poisoned
          /\ \E added \in 0..2, failed \in BOOLEAN :
                 /\ traverser.expr_arena + added <= MaxArenaLen
                 /\ traverser' = [traverser EXCEPT !.expr_arena = @ + added]
                 /\ traverser_call' =
                        TraverserCall("add_expressions", <<added>>, IF failed THEN "err" ELSE "ok",
                                      IF failed THEN 0 ELSE traverser.expr_arena + added)
    /\ traverser_unchanged

\* view_expression(node): mapping.get(node).unwrap(), then expr_arena.get(n)
ViewExpression ==
    /\ traverser.tag = "NodeTraverser"
    /\ \E node \in 0..MaxArenaLen :
           \/ LockPanics("view_expression", node)
           \/ /\ ~traverser.poisoned
              /\ LET mapped == traverser.expr_mapping # <<>>
                     past_mapping == mapped /\ node >= Len(traverser.expr_mapping[1])
                     n == IF mapped /\ ~past_mapping THEN traverser.expr_mapping[1][node + 1] ELSE node
                 IN IF past_mapping \/ n >= traverser.expr_arena
                    THEN /\ traverser' = [traverser EXCEPT !.poisoned = TRUE]
                         /\ traverser_call' =
                                TraverserCall("view_expression", node,
                                              IF past_mapping THEN "panic_mapping" ELSE "panic_arena", 0)
                    ELSE /\ traverser' = traverser
                         /\ traverser_call' = TraverserCall("view_expression", node, "ok", n)
    /\ traverser_unchanged

\* PyLazyFrame::visit hands out a traverser over an arena of some expressions.
TraverserInit ==
    /\ \E expr_arena \in 0..2 : traverser = NodeTraverser_new(expr_arena)
    /\ traverser_call = NoLibCall
    /\ chunked_array = NoChunkedArray
    /\ non_null_call = NoLibCall
    /\ bitmap = NoBitmap /\ bitmap_call = NoCall /\ overflow_checks = TRUE /\ to_run = <<>>
    /\ driver_idle

TraverserNext == SetExprMapping \/ UnsetExprMapping \/ AddExpressions \/ ViewExpression

TraverserSpec == TraverserInit /\ [][TraverserNext]_vars

(* ------------------------------------------------------------------ *)
(* Properties of NodeTraverser                                         *)
(* ------------------------------------------------------------------ *)
mapping_is_set == traverser.expr_mapping # <<>>

\* set_expr_mapping with a mapping of the arena's length sets it, with any other length it
\* fails and changes nothing.
set_expr_mapping_checks_length ==
    (traverser_call'.op = "set_expr_mapping" /\ ~traverser.poisoned) =>
        IF Len(traverser_call'.arg) = traverser.expr_arena
        THEN traverser_call'.outcome = "ok" /\ traverser'.expr_mapping = <<traverser_call'.arg>>
        ELSE traverser_call'.outcome = "err" /\ traverser' = traverser

\* C39: whenever an expression mapping is set its length is the length of the expression
\* arena, after any sequence of set_expr_mapping, unset_expr_mapping and add_expressions;
\* set_expr_mapping with a mapping of another length fails and leaves the mapping as it
\* was; so view_expression(i) with i a valid arena index never indexes past the mapping.
C39_MappingLengthIsArenaLength ==
    /\ [](mapping_is_set => Len(traverser.expr_mapping[1]) = traverser.expr_arena)
    /\ [][set_expr_mapping_checks_length]_vars
    /\ []((traverser_call.op = "view_expression" /\ traverser_call.arg < traverser.expr_arena)
              => traverser_call.outcome # "panic_mapping")

\* What holds: the length check of set_expr_mapping, and a mapping that is set is as long
\* as the arena was when it was set, so never longer than the arena.
MappingNoLongerThanArena ==
    /\ [](mapping_is_set => Len(traverser.expr_mapping[1]) <= traverser.expr_arena)
    /\ [][set_expr_mapping_checks_length]_vars
    /\ [][(traverser_call'.op = "set_expr_mapping" /\ traverser_call'.outcome = "ok") =>
              Len(traverser'.expr_mapping[1]) = traverser'.expr_arena]_vars

====
